---- MODULE Spec2Model ----
(***************************************************************************)
(* A model of the EdgeX-Lighter arbitrage backend (src/backend).           *)
(*                                                                         *)
(* Units.  Quantities and positions are integers in units of the          *)
(* configured order_quantity; prices, spreads and thresholds are integers  *)
(* in units of tick_size; time is time.time() in whole seconds.  A         *)
(* threshold is a rational [num, den] because _update_thresholds takes a   *)
(* mean.  Python's None is the value None below.                           *)
(***************************************************************************)
EXTENDS Integers, Sequences, FiniteSets, TLC

VARIABLES
    now,               \* time.time()
    risk_manager,      \* RiskManager: counters, error ring, breaker
    position_manager,  \* PositionManager: the two signed positions
    order_book_manager,\* OrderBookManager: the two quotes and ready flags
    engine,            \* ArbitrageEngine
    emitted,           \* timestamps of the signals emitted so far, in order
    ret,               \* what the last operation returned (observation)
    edgex_ready,       \* ArbitrageSystem.edgex_ready
    sampling_notified, \* ArbitrageSystem.sampling_notified
    pending_orders,    \* ArbitrageSystem.pending_orders, by client order id
    latency_monitor,   \* LatencyMonitor.samples['edgex_order']
    next_cycle,        \* when the trading loop wakes for its next pass
    lighter_client,    \* LighterClient: best_bid, best_ask, callbacks scheduled
    hedge,             \* the FILLED handler waiting in place_market_order
    lighter_orders,    \* hedge orders resting on venue L
    history,           \* per client order id, what has happened (observation)
    msgs,              \* order messages and disconnects of the front-end so far
    clients,           \* WebSocketServer.clients: the front-end's entry
    ledger_lock,       \* PositionManager._lock is held
    call_stack,        \* the PositionManager calls in progress on the thread
    main_loop,         \* start() and _trading_loop: where they stand
    notified           \* what _on_risk_emergency has logged and sent

\* the state only the ledger's calls and the main loop's own steps touch
loop_vars == <<ledger_lock, call_stack, main_loop, notified>>

coordinator == <<edgex_ready, sampling_notified, pending_orders,
                 latency_monitor, next_cycle, lighter_client, hedge,
                 lighter_orders, history, msgs, clients, loop_vars>>

vars == <<now, risk_manager, position_manager, order_book_manager, engine,
         emitted, ret, coordinator>>

None == -1

Abs(x) == IF x < 0 THEN -x ELSE x

Max(a, b) == IF a >= b THEN a ELSE b

(***************************************************************************)
(* Configuration and program constants                                     *)
(***************************************************************************)
\* RiskConfig.circuit_breaker_threshold as configured here (default 10)
circuit_breaker_threshold == 2
\* RiskConfig.circuit_breaker_window, seconds
circuit_breaker_window == 60
\* seconds after which _check_circuit_breaker resets the breaker
BreakerCooldown == 300
\* error_history = deque(maxlen=100)
ErrorHistoryMaxLen == 100
\* _check_error_rate looks at the rate only when trade_count > 10
ErrorRateMinTrades == 10
\* RiskConfig.max_error_rate = 0.1, as a percentage
MaxErrorRatePct == 10
\* RiskConfig.max_daily_loss
max_daily_loss == 100
\* max_position as configured here, in order quantities (default 0.01 = 10)
max_position == 2
\* max_position_imbalance as configured here (default 0.005 = 5)
max_position_imbalance == 1
\* StrategyConfig.order_quantity: the unit of quantity
order_quantity == 1

Sides == {"buy", "sell"}

(***************************************************************************)
(* PositionManager (strategy/position_manager.py)                          *)
(***************************************************************************)
get_edgex_position(pm) == pm.edgex

get_lighter_position(pm) == pm.lighter

update_edgex_position(pm, delta) == [pm EXCEPT !.edgex = @ + delta]

update_lighter_position(pm, delta) == [pm EXCEPT !.lighter = @ + delta]

get_net_position(pm) == pm.edgex + pm.lighter

get_position_imbalance(pm) == Abs(get_net_position(pm))

\* set_edgex_position and set_lighter_position: the size is replaced
set_edgex_position(pm, size) == [pm EXCEPT !.edgex = size]

set_lighter_position(pm, size) == [pm EXCEPT !.lighter = size]

\* the methods of the ledger that main.py, the risk manager and the
\* telegram bot call, sync_lighter_position apart
LedgerOps ==
    {"get_edgex_position", "update_edgex_position", "set_edgex_position",
     "get_lighter_position", "update_lighter_position", "set_lighter_position",
     "get_net_position", "get_position_imbalance", "is_position_balanced",
     "get_total_exposure", "get_status"}

\* the methods whose body is inside "with self._lock"
LockedOps ==
    LedgerOps \ {"get_position_imbalance", "is_position_balanced"}

\* the ledger methods a method calls from its body, in the order it calls
\* them; get_status calls its three from inside "with self._lock"
NestedCalls(op) ==
    CASE op = "get_status" ->
             <<"get_net_position", "get_position_imbalance",
               "is_position_balanced">>
      [] op = "get_position_imbalance" -> <<"get_net_position">>
      [] op = "is_position_balanced" -> <<"get_position_imbalance">>
      [] OTHER -> <<>>

\* a call of a ledger method that has not yet reached its first statement:
\* pc is "enter" before "with self._lock" is passed and "body" after it
\* (a method without the with statement is in its body at once)
Frame(op, arg) ==
    [op |-> op, arg |-> arg,
     pc |-> IF op \in LockedOps THEN "enter" ELSE "body",
     todo |-> NestedCalls(op)]

\* the ledger after the body of a method has run
LedgerEffect(pm, op, arg) ==
    CASE op = "update_edgex_position" -> update_edgex_position(pm, arg)
      [] op = "set_edgex_position" -> set_edgex_position(pm, arg)
      [] op = "update_lighter_position" -> update_lighter_position(pm, arg)
      [] op = "set_lighter_position" -> set_lighter_position(pm, arg)
      [] OTHER -> pm

\* LighterClient.get_position: the size venue L reports, and 0 when the
\* request or its decoding raises (the except clause returns Decimal('0'))
get_position(transport_ok, venue_size) ==
    IF transport_ok THEN venue_size ELSE 0

\* sync_lighter_position: the try body awaits get_position and stores what
\* it returned with set_lighter_position; get_position catches every
\* exception itself, so the except clause of the sync is not reached
sync_lighter_position(pm, transport_ok, venue_size) ==
    set_lighter_position(pm, get_position(transport_ok, venue_size))

(***************************************************************************)
(* RiskManager (risk/risk_manager.py)                                      *)
(***************************************************************************)
\* emergency_coroutines counts the calls of on_emergency.  The callback set
\* by the coordinator is the coroutine function _on_risk_emergency, and
\* _check_for_circuit_breaker calls it like a plain function: each call makes
\* a coroutine object that nothing awaits, so the callback's body is not run.
RiskInit ==
    [daily_pnl |-> 0, trade_count |-> 0, error_count |-> 0,
     error_history |-> <<>>,
     circuit_breaker_triggered |-> FALSE, circuit_breaker_time |-> 0,
     emergency_coroutines |-> 0]

\* deque(maxlen=100).append
DequeAppend(q, x, maxlen) ==
    IF maxlen = 0 THEN <<>>
    ELSE IF Len(q) >= maxlen THEN Append(Tail(q), x)
    ELSE Append(q, x)

\* recent_errors = sum(1 for t in self.error_history if t > window_start)
RecentErrors(hist, t) ==
    Cardinality({i \in DOMAIN hist : hist[i] > t - circuit_breaker_window})

\* the breaker tripping only above the threshold
check_for_circuit_breaker_above(r, t) ==
    IF RecentErrors(r.error_history, t) > circuit_breaker_threshold
    THEN [r EXCEPT !.circuit_breaker_triggered = TRUE,
                   !.circuit_breaker_time = t,
                   !.emergency_coroutines = @ + 1]
    ELSE r

\* _check_for_circuit_breaker
check_for_circuit_breaker(r, t) ==
    IF RecentErrors(r.error_history, t) >= circuit_breaker_threshold
    THEN [r EXCEPT !.circuit_breaker_triggered = TRUE,
                   !.circuit_breaker_time = t,
                   !.emergency_coroutines = @ + 1]
    ELSE r

record_error(r, t) ==
    check_for_circuit_breaker(
        [r EXCEPT !.error_count = @ + 1,
                  !.error_history = DequeAppend(@, t, ErrorHistoryMaxLen)], t)

record_trade(r, success, pnl, t) ==
    LET r1 == [r EXCEPT !.trade_count = @ + 1, !.daily_pnl = @ + pnl]
    IN  IF success THEN r1
        ELSE check_for_circuit_breaker(
                [r1 EXCEPT !.error_count = @ + 1,
                           !.error_history = DequeAppend(@, t, ErrorHistoryMaxLen)], t)

reset_daily_stats(r) ==
    [r EXCEPT !.daily_pnl = 0, !.trade_count = 0, !.error_count = 0,
              !.error_history = <<>>]

reset_circuit_breaker(r) ==
    [r EXCEPT !.circuit_breaker_triggered = FALSE, !.circuit_breaker_time = 0,
              !.error_history = <<>>]

\* the breaker resetting once the error window has passed
check_circuit_breaker_after_window(r, t) ==
    IF r.circuit_breaker_triggered
    THEN IF t - r.circuit_breaker_time > circuit_breaker_window
         THEN [blocked |-> FALSE,
               risk |-> [r EXCEPT !.circuit_breaker_triggered = FALSE]]
         ELSE [blocked |-> TRUE, risk |-> r]
    ELSE [blocked |-> FALSE, risk |-> r]

\* _check_circuit_breaker: whether the breaker blocks, and the manager after
\* the call (the call itself resets an expired breaker)
check_circuit_breaker(r, t) ==
    IF r.circuit_breaker_triggered
    THEN IF t - r.circuit_breaker_time > BreakerCooldown
         THEN [blocked |-> FALSE,
               risk |-> [r EXCEPT !.circuit_breaker_triggered = FALSE]]
         ELSE [blocked |-> TRUE, risk |-> r]
    ELSE [blocked |-> FALSE, risk |-> r]

\* the position test made against both ends of the range
check_position_limit_both_ends(edgex_side, quantity, current_position) ==
    LET new_position == IF edgex_side = "buy" THEN current_position + quantity
                        ELSE current_position - quantity
    IN  ~(new_position > max_position \/ new_position < -max_position)

check_position_limit(edgex_side, quantity, current_position) ==
    IF edgex_side = "buy"
    THEN ~(current_position + quantity > max_position)
    ELSE ~(current_position - quantity < -max_position)

\* the imbalance rule failing on any net position other than zero
check_position_imbalance_flat_only(pm) ==
    get_position_imbalance(pm) = 0

check_position_imbalance(pm) ==
    ~(get_position_imbalance(pm) > max_position_imbalance)

check_daily_loss_limit(r) == ~(r.daily_pnl < -max_daily_loss)

\* error_count / trade_count > 0.1, in integers
check_error_rate(r) ==
    ~(r.trade_count > ErrorRateMinTrades
      /\ r.error_count * 100 > MaxErrorRatePct * r.trade_count)

\* check_signal recording an error for every signal it rejects
check_signal_counting_rejections(r, t, edgex_side, quantity, pm) ==
    LET cb == check_circuit_breaker(r, t)
        ok == /\ ~cb.blocked
              /\ check_position_limit(edgex_side, quantity,
                                      get_edgex_position(pm))
              /\ check_position_imbalance(pm)
              /\ check_daily_loss_limit(cb.risk)
              /\ check_error_rate(cb.risk)
    IN  [ok |-> ok,
         risk |-> IF ok THEN cb.risk ELSE record_error(cb.risk, t)]

\* check_signal: the verdict and the manager after the call
check_signal(r, t, edgex_side, quantity, pm) ==
    LET cb == check_circuit_breaker(r, t)
    IN  [ok |-> /\ ~cb.blocked
                /\ check_position_limit(edgex_side, quantity,
                                        get_edgex_position(pm))
                /\ check_position_imbalance(pm)
                /\ check_daily_loss_limit(cb.risk)
                /\ check_error_rate(cb.risk),
         risk |-> cb.risk]

(***************************************************************************)
(* OrderBookManager (strategy/order_book_manager.py)                       *)
(***************************************************************************)
\* the order books are kept as the sets of prices that have a size
BookInit ==
    [edgex_bbo |-> [bid |-> None, ask |-> None],
     lighter_bbo |-> [bid |-> None, ask |-> None],
     edgex_order_book |-> [bids |-> {}, asks |-> {}],
     lighter_order_book |-> [bids |-> {}, asks |-> {}],
     edgex_ready |-> FALSE, lighter_ready |-> FALSE]

update_edgex_bbo(ob, bid, ask) ==
    [ob EXCEPT !.edgex_bbo = [bid |-> IF bid # None THEN bid ELSE @.bid,
                              ask |-> IF ask # None THEN ask ELSE @.ask],
               !.edgex_ready = TRUE]

update_lighter_bbo(ob, bid, ask) ==
    [ob EXCEPT !.lighter_bbo = [bid |-> IF bid # None THEN bid ELSE @.bid,
                                ask |-> IF ask # None THEN ask ELSE @.ask],
               !.lighter_ready = TRUE]

SetMax(S) == CHOOSE x \in S : \A y \in S : y <= x

SetMin(S) == CHOOSE x \in S : \A y \in S : x <= y

\* the loop over the levels of one side: a level <<price, size>> with
\* size > 0 is stored, any other size removes the price
RECURSIVE apply_levels(_, _)
apply_levels(side, levels) ==
    IF levels = <<>> THEN side
    ELSE apply_levels(IF Head(levels)[2] > 0
                      THEN side \cup {Head(levels)[1]}
                      ELSE side \ {Head(levels)[1]},
                      Tail(levels))

\* _update_edgex_bbo_from_book and _update_lighter_bbo_from_book: a side of
\* the quote is written only when its map is not empty
update_bbo_from_book(bbo, book) ==
    [bid |-> IF book.bids # {} THEN SetMax(book.bids) ELSE bbo.bid,
     ask |-> IF book.asks # {} THEN SetMin(book.asks) ELSE bbo.ask]

\* the maps after update_edgex_order_book or update_lighter_order_book
update_order_book(book, bids, asks, is_snapshot) ==
    [bids |-> apply_levels(IF is_snapshot THEN {} ELSE book.bids, bids),
     asks |-> apply_levels(IF is_snapshot THEN {} ELSE book.asks, asks)]

update_edgex_order_book(ob, bids, asks, is_snapshot) ==
    LET book == update_order_book(ob.edgex_order_book, bids, asks, is_snapshot)
    IN  [ob EXCEPT !.edgex_order_book = book,
                   !.edgex_bbo = update_bbo_from_book(@, book),
                   !.edgex_ready = TRUE]

update_lighter_order_book(ob, bids, asks, is_snapshot) ==
    LET book == update_order_book(ob.lighter_order_book, bids, asks,
                                  is_snapshot)
    IN  [ob EXCEPT !.lighter_order_book = book,
                   !.lighter_bbo = update_bbo_from_book(@, book),
                   !.lighter_ready = TRUE]

is_ready(ob) == ob.edgex_ready /\ ob.lighter_ready

\* Python truth of an Optional[Decimal]: None and zero are both false
Truthy(p) == p # None /\ p # 0

NoSpread == [present |-> FALSE, long |-> 0, short |-> 0]

get_spread(ob) ==
    IF ~(/\ Truthy(ob.edgex_bbo.bid) /\ Truthy(ob.edgex_bbo.ask)
         /\ Truthy(ob.lighter_bbo.bid) /\ Truthy(ob.lighter_bbo.ask))
    THEN NoSpread
    ELSE [present |-> TRUE,
          long |-> ob.lighter_bbo.bid - ob.edgex_bbo.ask,
          short |-> ob.edgex_bbo.bid - ob.lighter_bbo.ask]

(***************************************************************************)
(* ArbitrageEngine (strategy/arbitrage_engine.py)                          *)
(***************************************************************************)
\* config min_samples as configured here (default 100)
min_samples == 2
\* config min_signal_interval as configured here, seconds (default 1.0)
min_signal_interval == 2
\* config threshold_offset as configured here, in ticks (default 10)
threshold_offset == 2
\* config long_threshold and short_threshold as configured here (default 10)
base_threshold == 3
\* the engine's unit of price
tick_size == 1
\* calculate_adaptive_threshold: one tick per 50 ms of latency
LatencyPenaltyMs == 50
\* check_arbitrage_opportunity updates the thresholds every 10 samples
ThresholdUpdateEvery == 10

RECURSIVE GCD(_, _)
GCD(a, b) == IF b = 0 THEN a ELSE GCD(b, a % b)

\* the rational n/d (d > 0) in lowest terms
Rat(n, d) ==
    LET g == GCD(Abs(n), d) IN [num |-> n \div g, den |-> d \div g]

RECURSIVE SeqSum(_)
SeqSum(q) == IF q = <<>> THEN 0 ELSE Head(q) + SeqSum(Tail(q))

\* ArbitrageEngine.__init__ with config min_samples = samples
ArbitrageEngine(samples) ==
    [min_samples |-> samples,
     is_running |-> FALSE, is_sampling |-> TRUE,
     history_long |-> <<>>, history_short |-> <<>>,
     sample_count |-> 0, signal_count |-> 0, last_signal_time |-> 0,
     long_threshold |-> Rat(base_threshold, 1),
     short_threshold |-> Rat(base_threshold, 1)]

EngineInit == ArbitrageEngine(min_samples)

NoSignal == [direction |-> "none"]

start(e) == [e EXCEPT !.is_running = TRUE]

stop(e) == [e EXCEPT !.is_running = FALSE]

\* pause leaving the engine running
pause_ignored(e) == e

pause(e) == [e EXCEPT !.is_running = FALSE]

resume(e) == [e EXCEPT !.is_running = TRUE]

\* sum(history) / len(history) over an empty deque: ZeroDivisionError
update_thresholds_raises(e) ==
    Len(e.history_long) >= e.min_samples /\ Len(e.history_long) = 0

\* the thresholds set to the mean alone
update_thresholds_no_offset(e) ==
    IF update_thresholds_raises(e) THEN e
    ELSE IF Len(e.history_long) >= e.min_samples
    THEN [e EXCEPT
            !.long_threshold =
                Rat(SeqSum(e.history_long), Len(e.history_long)),
            !.short_threshold =
                Rat(SeqSum(e.history_short), Len(e.history_short))]
    ELSE e

\* mean(history) + threshold_offset, once min_samples samples are there; the
\* engine is left as it was when the division raises
update_thresholds(e) ==
    IF update_thresholds_raises(e) THEN e
    ELSE IF Len(e.history_long) >= e.min_samples
    THEN [e EXCEPT
            !.long_threshold =
                Rat(SeqSum(e.history_long)
                      + threshold_offset * Len(e.history_long),
                    Len(e.history_long)),
            !.short_threshold =
                Rat(SeqSum(e.history_short)
                      + threshold_offset * Len(e.history_short),
                    Len(e.history_short))]
    ELSE e

\* sample_spread, given what get_spread returned
sample_spread(e, sp) ==
    IF sp.present
    THEN LET e1 == [e EXCEPT
                      !.history_long = DequeAppend(@, sp.long, 2 * e.min_samples),
                      !.history_short = DequeAppend(@, sp.short, 2 * e.min_samples),
                      !.sample_count = @ + 1]
         IN  IF e1.is_sampling /\ Len(e1.history_long) >= e1.min_samples
             THEN update_thresholds([e1 EXCEPT !.is_sampling = FALSE])
             ELSE e1
    ELSE e

\* sample_spread leaves through the exception of _update_thresholds
sample_spread_raises(e, sp) ==
    /\ sp.present
    /\ e.is_sampling
    /\ update_thresholds_raises(
           [e EXCEPT !.history_long = DequeAppend(@, sp.long, 2 * e.min_samples)])

calculate_adaptive_threshold(base, latency_ms) ==
    [num |-> base.num + (latency_ms \div LatencyPenaltyMs) * tick_size * base.den,
     den |-> base.den]

\* x > r for an integer x and a rational r
Exceeds(x, r) == x * r.den > r.num

reset_sampling(e) ==
    [e EXCEPT !.history_long = <<>>, !.history_short = <<>>,
              !.is_sampling = TRUE, !.sample_count = 0,
              !.long_threshold = Rat(base_threshold, 1),
              !.short_threshold = Rat(base_threshold, 1)]

\* the interval test with the interval one second short
signal_interval_elapsed_short(e, t) ==
    ~(t - e.last_signal_time < min_signal_interval - 1)

\* the sampling test left out
still_sampling_ignored(e) == FALSE

\* the interval test of check_arbitrage_opportunity
signal_interval_elapsed(e, t) == ~(t - e.last_signal_time < min_signal_interval)

\* the sampling test of check_arbitrage_opportunity
still_sampling(e) == e.is_sampling

MakeSignal(dir, eside, lside, eprice, lprice, spread, t) ==
    [direction |-> dir, edgex_side |-> eside, lighter_side |-> lside,
     edgex_price |-> eprice, lighter_price |-> lprice, spread |-> spread,
     quantity |-> order_quantity, timestamp |-> t,
     client_order_id |-> <<dir, t>>]

\* the last part of check_arbitrage_opportunity with the SHORT test first
decide_short_first(e2, ob, pm, sp, latency_ms, t) ==
    LET current_position == get_edgex_position(pm)
        adaptive_long == calculate_adaptive_threshold(e2.long_threshold, latency_ms)
        adaptive_short == calculate_adaptive_threshold(e2.short_threshold, latency_ms)
        fired == [e2 EXCEPT !.last_signal_time = t, !.signal_count = @ + 1]
    IN
    IF Exceeds(sp.short, adaptive_short) /\ current_position > -max_position
    THEN [engine |-> fired,
          signal |-> MakeSignal("short", "sell", "buy",
                                ob.edgex_bbo.bid + tick_size,
                                ob.lighter_bbo.ask, sp.short, t)]
    ELSE IF Exceeds(sp.long, adaptive_long) /\ current_position < max_position
    THEN [engine |-> fired,
          signal |-> MakeSignal("long", "buy", "sell",
                                ob.edgex_bbo.ask - tick_size,
                                ob.lighter_bbo.bid, sp.long, t)]
    ELSE [engine |-> e2, signal |-> NoSignal]

\* check_arbitrage_opportunity with the SHORT test before the LONG test
check_arbitrage_opportunity_short_first(e, ob, pm, latency_ms, t) ==
    IF ~e.is_running THEN [engine |-> e, signal |-> NoSignal]
    ELSE
    LET sp == get_spread(ob)
        e1 == sample_spread(e, sp)
    IN
    IF ~sp.present THEN [engine |-> e1, signal |-> NoSignal]
    ELSE IF sample_spread_raises(e, sp) THEN [engine |-> e1, signal |-> NoSignal]
    ELSE IF still_sampling(e1) THEN [engine |-> e1, signal |-> NoSignal]
    ELSE IF e1.sample_count % ThresholdUpdateEvery = 0 /\ update_thresholds_raises(e1)
    THEN [engine |-> e1, signal |-> NoSignal]
    ELSE
    LET e2 == IF e1.sample_count % ThresholdUpdateEvery = 0
              THEN update_thresholds(e1) ELSE e1
    IN
    IF ~signal_interval_elapsed(e2, t) THEN [engine |-> e2, signal |-> NoSignal]
    ELSE decide_short_first(e2, ob, pm, sp, latency_ms, t)

\* check_arbitrage_opportunity leaves through an exception instead of returning
check_arbitrage_opportunity_raises(e, ob) ==
    LET sp == get_spread(ob)
        e1 == sample_spread(e, sp)
    IN  /\ e.is_running
        /\ sp.present
        /\ \/ sample_spread_raises(e, sp)
           \/ /\ ~still_sampling(e1)
              /\ e1.sample_count % ThresholdUpdateEvery = 0
              /\ update_thresholds_raises(e1)

\* check_arbitrage_opportunity(latency_ms) at time t: the engine after the
\* call and the signal returned (none when the call raises)
check_arbitrage_opportunity(e, ob, pm, latency_ms, t) ==
    IF ~e.is_running THEN [engine |-> e, signal |-> NoSignal]
    ELSE
    LET sp == get_spread(ob)
        e1 == sample_spread(e, sp)
    IN
    IF ~sp.present THEN [engine |-> e1, signal |-> NoSignal]
    ELSE IF sample_spread_raises(e, sp) THEN [engine |-> e1, signal |-> NoSignal]
    ELSE IF still_sampling(e1) THEN [engine |-> e1, signal |-> NoSignal]
    ELSE IF e1.sample_count % ThresholdUpdateEvery = 0 /\ update_thresholds_raises(e1)
    THEN [engine |-> e1, signal |-> NoSignal]
    ELSE
    LET e2 == IF e1.sample_count % ThresholdUpdateEvery = 0
              THEN update_thresholds(e1) ELSE e1
    IN
    IF ~signal_interval_elapsed(e2, t) THEN [engine |-> e2, signal |-> NoSignal]
    ELSE
    LET current_position == get_edgex_position(pm)
        adaptive_long == calculate_adaptive_threshold(e2.long_threshold, latency_ms)
        adaptive_short == calculate_adaptive_threshold(e2.short_threshold, latency_ms)
        fired == [e2 EXCEPT !.last_signal_time = t, !.signal_count = @ + 1]
    IN
    IF Exceeds(sp.long, adaptive_long) /\ current_position < max_position
    THEN [engine |-> fired,
          signal |-> MakeSignal("long", "buy", "sell",
                                ob.edgex_bbo.ask - tick_size,
                                ob.lighter_bbo.bid, sp.long, t)]
    ELSE IF Exceeds(sp.short, adaptive_short) /\ current_position > -max_position
    THEN [engine |-> fired,
          signal |-> MakeSignal("short", "sell", "buy",
                                ob.edgex_bbo.bid + tick_size,
                                ob.lighter_bbo.ask, sp.short, t)]
    ELSE [engine |-> e2, signal |-> NoSignal]

(***************************************************************************)
(* LatencyMonitor (risk/latency_monitor.py)                                *)
(***************************************************************************)
\* LatencyMonitor(max_samples=100): each category is a deque of this length
LatencyMaxSamples == 100
\* estimate_frontend_latency averages the last 5 samples
RecentLatencyCount == 5
\* estimate_frontend_latency's answer when it has no sample
DefaultLatencyMs == 100

\* record('edgex_order', latency_ms)
latency_record(samples, latency_ms) ==
    DequeAppend(samples, latency_ms, LatencyMaxSamples)

\* get_recent_avg: the mean of the last count samples, 0 when there is none
get_recent_avg(samples, count) ==
    IF samples = <<>> THEN [num |-> 0, den |-> 1]
    ELSE LET first == Max(1, Len(samples) - count + 1)
             recent == SubSeq(samples, first, Len(samples))
         IN  [num |-> SeqSum(recent), den |-> Len(recent)]

\* estimate_frontend_latency; no frontend_ws sample is ever recorded here
estimate_frontend_latency(samples) ==
    LET order_avg == get_recent_avg(samples, RecentLatencyCount)
    IN  IF order_avg.num > 0 THEN order_avg.num \div order_avg.den
        ELSE DefaultLatencyMs

(***************************************************************************)
(* ArbitrageSystem (main.py): the coordinator's handlers                   *)
(***************************************************************************)
\* a map with no key
EmptyMap == [c \in {} |-> 0]

MapPut(m, k, v) == [c \in DOMAIN m \cup {k} |-> IF c = k THEN v ELSE m[c]]

\* del m[k] when k is a key
MapDel(m, k) == [c \in DOMAIN m \ {k} |-> m[c]]

\* _execute_signal: the pending order it records
execute_signal(pending, signal) ==
    MapPut(pending, signal.client_order_id,
           [signal |-> signal, status |-> "pending",
            create_time |-> signal.timestamp])

\* _on_order_placed leaving the entry of a failed placement in the map
order_placed_pending_kept(pending, cid, success, order_id, latency) ==
    IF success /\ cid \in DOMAIN pending
    THEN [pending EXCEPT ![cid] =
             [signal |-> @.signal, status |-> "placed",
              create_time |-> @.create_time,
              edgex_order_id |-> order_id, place_latency |-> latency]]
    ELSE pending

\* _on_order_placed on pending_orders
order_placed_pending(pending, cid, success, order_id, latency) ==
    IF success
    THEN IF cid \in DOMAIN pending
         THEN [pending EXCEPT ![cid] =
                  [signal |-> @.signal, status |-> "placed",
                   create_time |-> @.create_time,
                   edgex_order_id |-> order_id, place_latency |-> latency]]
         ELSE pending
    ELSE MapDel(pending, cid)

\* the hedge placed whenever the top of book has a price, whatever the side
execute_lighter_hedge_any_price(lighter_bbo, edgex_side, quantity) ==
    IF edgex_side = "buy"
    THEN [placed |-> TRUE, side |-> "sell", quantity |-> quantity,
          price_milli |-> lighter_bbo.bid * 995]
    ELSE [placed |-> TRUE, side |-> "buy", quantity |-> quantity,
          price_milli |-> lighter_bbo.ask * 1005]

\* _execute_lighter_hedge up to its call of place_market_order: whether the
\* call is made, and with what (the price in thousandths of a tick)
execute_lighter_hedge(lighter_bbo, edgex_side, quantity) ==
    IF edgex_side = "buy"
    THEN IF lighter_bbo.bid = None
         THEN [placed |-> FALSE, error |-> "No bid price"]
         ELSE [placed |-> TRUE, side |-> "sell", quantity |-> quantity,
               price_milli |-> lighter_bbo.bid * 995]
    ELSE IF lighter_bbo.ask = None
         THEN [placed |-> FALSE, error |-> "No ask price"]
         ELSE [placed |-> TRUE, side |-> "buy", quantity |-> quantity,
               price_milli |-> lighter_bbo.ask * 1005]

\* the success argument of record_trade in the FILLED branch: the literal True
trade_success(hedge_ok) == TRUE

\* what the FILLED branch of _on_order_update did, once it has ended
FilledOutcome(cid, placed, hedge_ok, error, r0, r1, net0, net1, delta) ==
    [op |-> "order_filled", cid |-> cid, placed |-> placed,
     hedge_ok |-> hedge_ok, error |-> error,
     trade_success |-> trade_success(hedge_ok),
     errors_before |-> r0.error_count,
     errors_after |-> r1.error_count,
     trades_before |-> r0.trade_count,
     trades_after |-> r1.trade_count,
     net_before |-> net0, net_after |-> net1, delta |-> delta]

\* delta = filled if side == 'buy' else -filled, with the sign dropped
fill_delta_unsigned(side, filled) == filled

\* delta = filled if side == 'buy' else -filled
fill_delta(side, filled) == IF side = "buy" THEN filled ELSE -filled

\* what one pass of the trading loop reads and writes
LoopState ==
    [edgex_ready |-> edgex_ready, book |-> order_book_manager,
     pm |-> position_manager, latency |-> latency_monitor,
     engine |-> engine, risk |-> risk_manager, pending |-> pending_orders,
     notified |-> sampling_notified, signal |-> NoSignal, ok |-> FALSE]

\* one pass of the while loop of _trading_loop at time t
trading_loop(s, t) ==
    IF ~s.edgex_ready \/ ~is_ready(s.book)
    THEN [s EXCEPT !.signal = NoSignal, !.ok = FALSE]
    ELSE
    LET res == check_arbitrage_opportunity(
                   s.engine, s.book, s.pm,
                   estimate_frontend_latency(s.latency), t)
        adm == IF res.signal = NoSignal THEN [ok |-> FALSE, risk |-> s.risk]
               ELSE check_signal(s.risk, t, res.signal.edgex_side,
                                 res.signal.quantity, s.pm)
    IN  [s EXCEPT !.engine = res.engine,
                  !.notified = @ \/ ~res.engine.is_sampling,
                  !.risk = adm.risk,
                  !.pending = IF adm.ok THEN execute_signal(@, res.signal)
                              ELSE @,
                  !.signal = res.signal,
                  !.ok = adm.ok]

\* what is remembered of a client order id (observation)
NoHistory ==
    [dispatched |-> FALSE, order_placed |-> FALSE, terminal |-> FALSE,
     fills |-> 0, priced |-> 0, placements |-> 0, hedged_early |-> FALSE,
     failed_hedges |-> 0]

HistoryOf(cid) == IF cid \in DOMAIN history THEN history[cid] ELSE NoHistory

NoHedge == [active |-> FALSE]

\* ret after a step that returns nothing
Idle == [op |-> "none"]

\* stop(): what it does, in the order of its statements; each inner
\* sequence runs without a suspension and ends in an await (the flatten,
\* telegram_bot.stop(), lighter_client.close(), ws_server.stop())
StopSegmentsServerFirst ==
    << <<"stop_flag", "stop_server", "engine_stop", "export", "log_event",
         "flatten">>,
       <<"close_logger", "stop_telegram">>,
       <<"close_lighter">> >>

StopSegments ==
    << <<"stop_flag", "engine_stop", "export", "log_event", "flatten">>,
       <<"close_logger", "stop_telegram">>,
       <<"close_lighter">>,
       <<"stop_server">> >>

\* a call of stop() that has run its first segment
StopCalled == [segment |-> 1, log |-> StopSegments[1]]

\* the bridge server has been stopped by a call of stop(): its clients'
\* sockets are closed
ServerStopped(calls) ==
    \E i \in DOMAIN calls :
        \E k \in DOMAIN calls[i].log : calls[i].log[k] = "stop_server"

\* _emergency_flatten: the emergency_close command it sends to the ready
\* edgex front-end when a position is held on venue F
emergency_flatten(pm, cl, calls) ==
    IF Abs(get_edgex_position(pm)) > 0 /\ cl = "ready" /\ ~ServerStopped(calls)
    THEN <<"emergency_close">>
    ELSE <<>>

\* a call of stop() that has run its first segment, the flatten included
stop_call(pm, cl, calls) ==
    [StopCalled EXCEPT !.log = @ \o emergency_flatten(pm, cl, calls)]

\* the main loop where the specifications that do not step it leave it
LoopIdle == [pc |-> "loop", stop_flag |-> FALSE, stop_calls |-> <<>>]

\* the one thread runs a handler only while start() and the loop are
\* suspended in an await and no ledger call is in progress
ThreadFree ==
    /\ call_stack = <<>>
    /\ main_loop.pc \in {"loop", "waiting", "syncing", "asleep", "done"}

\* DataLogger and TelegramBot as far as the circuit breaker goes: the
\* circuit_breaker events logged and the alerts sent
NothingNotified == [circuit_breaker_events |-> 0, circuit_breaker_alerts |-> 0]

\* ArbitrageSystem after __init__ and start(), the engine started
\* LighterClient after initialize(): the order book, the quote, the
\* callbacks scheduled, and the task running _run_websocket (failures counts
\* the connections that failed or closed since the last one that succeeded)
LighterClientInit ==
    [best_bid |-> None, best_ask |-> None, tasks |-> <<>>,
     order_book |-> [bids |-> {}, asks |-> {}],
     ws_stop |-> FALSE, ws_connected |-> FALSE,
     ws |-> [pc |-> "loop", reconnect_count |-> 0, delay |-> 0,
             failures |-> 0]]

\* LighterClient._update_bbo: a side whose map is empty becomes None
update_bbo(lc) ==
    [lc EXCEPT
       !.best_bid = IF lc.order_book.bids # {}
                    THEN SetMax(lc.order_book.bids) ELSE None,
       !.best_ask = IF lc.order_book.asks # {}
                    THEN SetMin(lc.order_book.asks) ELSE None]

\* LighterClient._update_order_book with no callback registered
client_update_order_book(lc, bids, asks, is_snapshot) ==
    update_bbo([lc EXCEPT !.order_book =
                   update_order_book(lc.order_book, bids, asks, is_snapshot)])

CoordinatorInit ==
    /\ edgex_ready = FALSE
    /\ sampling_notified = FALSE
    /\ pending_orders = EmptyMap
    /\ latency_monitor = <<>>
    /\ next_cycle = now
    /\ lighter_client = LighterClientInit
    /\ hedge = NoHedge
    /\ lighter_orders = <<>>
    /\ history = EmptyMap
    /\ msgs = 0
    /\ clients = "none"
    /\ ledger_lock = FALSE
    /\ call_stack = <<>>
    /\ main_loop = LoopIdle
    /\ notified = NothingNotified

(***************************************************************************)
(* SpecAdmit: RiskManager.check_signal applied to drawn manager states     *)
(***************************************************************************)
\* the instant of the check_signal calls
AdmitTime == 1000
\* how far beyond max_position the drawn positions go
PositionSlack == 2
\* the drawn error counts go up to this
MaxAdmitErrors == 3

AdmitPositions == (0 - max_position - PositionSlack)..(max_position + PositionSlack)

\* A manager state with the drawn counters.  A set breaker was stamped at
\* cbt by the errors in the ring; an unset one never tripped, its errors
\* lying more than a window apart.
AdmitRisk(trades, errors, pnl, triggered, cbt) ==
    [daily_pnl |-> pnl, trade_count |-> trades, error_count |-> errors,
     error_history |->
        IF triggered THEN [i \in 1..errors |-> cbt]
        ELSE [i \in 1..errors |->
                 AdmitTime - (errors - i + 1) * (circuit_breaker_window + 1)],
     circuit_breaker_triggered |-> triggered,
     circuit_breaker_time |-> IF triggered THEN cbt ELSE 0,
     emergency_coroutines |-> IF triggered THEN 1 ELSE 0]

AdmitInit ==
    /\ now = AdmitTime
    /\ \E trades \in {0, ErrorRateMinTrades, ErrorRateMinTrades + 1,
                      2 * ErrorRateMinTrades, 3 * ErrorRateMinTrades},
          errors \in 0..MaxAdmitErrors,
          pnl \in {0 - max_daily_loss - 1, 0 - max_daily_loss, 0},
          triggered \in BOOLEAN,
          cbt \in {AdmitTime - BreakerCooldown - 1, AdmitTime - BreakerCooldown,
                   AdmitTime - 1} :
            risk_manager = AdmitRisk(trades, errors, pnl, triggered, cbt)
    /\ \E e \in AdmitPositions, l \in AdmitPositions :
            position_manager = [edgex |-> e, lighter |-> l]
    /\ order_book_manager = BookInit
    /\ engine = EngineInit
    /\ emitted = <<>>
    /\ ret = [op |-> "init"]
    /\ CoordinatorInit

\* a call of check_signal(signal, position_manager); ret keeps the arguments,
\* the state the call read and the verdict
CheckSignalCall ==
    \E side \in Sides :
        LET res == check_signal(risk_manager, now, side, order_quantity,
                                position_manager)
        IN  /\ risk_manager' = res.risk
            /\ ret' = [op |-> "check_signal", ok |-> res.ok,
                       edgex_side |-> side, quantity |-> order_quantity,
                       t |-> now, risk |-> risk_manager,
                       pm |-> position_manager]
            /\ UNCHANGED <<now, position_manager, order_book_manager, engine,
                           emitted>>
            /\ UNCHANGED coordinator

AdmitNext == CheckSignalCall

SpecAdmit == AdmitInit /\ [][AdmitNext]_vars

(***************************************************************************)
(* SpecEngine: the Signal Engine driven by quotes, fills and its callers   *)
(***************************************************************************)
\* time.time() when the engine is constructed
StartTime == 1000
\* the clock runs this many seconds past StartTime
MaxEngineTime == 3
\* check_arbitrage_opportunity is called while sample_count is below this
MaxSampleCount == 4

\* top-of-book quotes the venues produce, <<bid, ask>>
EdgexQuotes == {<<10, 11>>}

LighterQuotes == {<<10, 11>>, <<16, 17>>, <<3, 4>>}

\* latency estimates handed to check_arbitrage_opportunity, ms
Latencies == {0, 100}

EngineSpecInit ==
    /\ now = StartTime
    /\ risk_manager = RiskInit
    /\ position_manager = [edgex |-> 0, lighter |-> 0]
    /\ order_book_manager = BookInit
    /\ engine = EngineInit
    /\ emitted = <<>>
    /\ ret = [op |-> "init"]
    /\ CoordinatorInit

EngineTick ==
    /\ now < StartTime + MaxEngineTime
    /\ now' = now + 1
    /\ UNCHANGED <<risk_manager, position_manager, order_book_manager, engine,
                   emitted>>
    /\ ret' = Idle
    /\ UNCHANGED coordinator

\* ArbitrageSystem._on_market_data with both sides given
EdgexMarketData ==
    \E q \in EdgexQuotes :
        /\ ~hedge.active
        /\ ThreadFree
        /\ order_book_manager' = update_edgex_bbo(order_book_manager, q[1], q[2])
        /\ UNCHANGED <<now, risk_manager, position_manager, engine, emitted>>
        /\ ret' = Idle
        /\ UNCHANGED coordinator

\* OrderBookManager.update_lighter_bbo with both sides given
LighterMarketDataOf(quotes) ==
    \E q \in quotes :
        /\ ThreadFree
        /\ order_book_manager' = update_lighter_bbo(order_book_manager, q[1], q[2])
        /\ UNCHANGED <<now, risk_manager, position_manager, engine, emitted>>
        /\ ret' = Idle
        /\ UNCHANGED coordinator

LighterMarketData == LighterMarketDataOf(LighterQuotes)

\* a fill on F moving the F position by one order quantity
EdgexFill ==
    \E side \in Sides :
        LET delta == IF side = "buy" THEN order_quantity ELSE -order_quantity
        IN  /\ Abs(position_manager.edgex + delta) <= max_position
            /\ position_manager' = update_edgex_position(position_manager, delta)
            /\ UNCHANGED <<now, risk_manager, order_book_manager, engine, emitted>>
            /\ ret' = Idle
            /\ UNCHANGED coordinator

CheckOpportunityOf(limit, latencies) ==
    \E latency_ms \in latencies :
        LET res == check_arbitrage_opportunity(engine, order_book_manager,
                                               position_manager, latency_ms, now)
        IN  /\ engine.sample_count < limit
            /\ engine' = res.engine
            /\ emitted' = IF res.signal = NoSignal THEN emitted
                          ELSE Append(emitted, res.signal.timestamp)
            /\ ret' = [op |-> "check_arbitrage_opportunity", t |-> now,
                       latency_ms |-> latency_ms,
                       signal |-> res.signal,
                       raised |-> check_arbitrage_opportunity_raises(
                                      engine, order_book_manager),
                       is_sampling |-> res.engine.is_sampling,
                       sample_count |-> res.engine.sample_count]
            /\ UNCHANGED <<now, risk_manager, position_manager,
                           order_book_manager>>
            /\ UNCHANGED coordinator

CheckOpportunityCall == CheckOpportunityOf(MaxSampleCount, Latencies)

StartCall ==
    /\ engine' = start(engine)
    /\ UNCHANGED <<now, risk_manager, position_manager, order_book_manager,
                   emitted>>
    /\ ret' = Idle
    /\ UNCHANGED coordinator

PauseCall ==
    /\ engine' = pause(engine)
    /\ UNCHANGED <<now, risk_manager, position_manager, order_book_manager,
                   emitted>>
    /\ ret' = Idle
    /\ UNCHANGED coordinator

ResetSamplingCall ==
    /\ engine' = reset_sampling(engine)
    /\ UNCHANGED <<now, risk_manager, position_manager, order_book_manager,
                   emitted>>
    /\ ret' = Idle
    /\ UNCHANGED coordinator

EngineNext ==
    \/ EngineTick
    \/ EdgexMarketData
    \/ LighterMarketData
    \/ EdgexFill
    \/ CheckOpportunityCall
    \/ StartCall
    \/ PauseCall
    \/ ResetSamplingCall

SpecEngine == EngineSpecInit /\ [][EngineNext]_vars

(***************************************************************************)
(* Spec: the coordinator with its front-end, venue L and the clock         *)
(***************************************************************************)
\* single seconds the clock runs past StartTime (and past each quiet period)
MaxTicks == 2
\* order_placed and order_update messages and disconnects of the front-end
MaxMessages == 2
\* market-data callbacks of the venue-L client waiting to run
MaxTasks == 1
\* length of a quiet period, seconds
QuietSeconds == 150
\* quiet periods in a run
MaxQuiet == 2

\* a client order id the coordinator never issued
ForeignId == <<"manual", 0>>

\* the orderId field of the order_placed messages
OrderIds == {"F-1"}

\* the latency field of the order_placed messages, ms
FrontendLatencies == {100}

\* the filledSize field of the order_update messages
FillSizes == {order_quantity}

\* the status field of the order_update messages
OrderStatuses == {"FILLED", "CANCELED", "REJECTED"}

\* tops of venue L's book after a stream message; one has no bid left
LighterTops == {<<10, 11>>, <<16, 17>>, <<None, 17>>}

\* client order ids the front-end names: those issued so far and a foreign one
MessageIds == DOMAIN history \cup {ForeignId}

BumpOthers(orders, d) ==
    [i \in DOMAIN orders |-> [orders[i] EXCEPT !.others = @ + d]]

RemoveAt(q, i) == SubSeq(q, 1, i - 1) \o SubSeq(q, i + 1, Len(q))

SystemInit ==
    /\ now = StartTime
    /\ risk_manager = RiskInit
    /\ position_manager = [edgex |-> 0, lighter |-> 0]
    /\ order_book_manager = BookInit
    /\ engine = start(EngineInit)
    /\ emitted = <<>>
    /\ ret = [op |-> "init"]
    /\ CoordinatorInit

\* a second passes, the trading loop having made its pass for this one
Tick ==
    /\ next_cycle > now
    /\ (now - StartTime) % QuietSeconds < MaxTicks
    /\ now' = now + 1
    /\ ret' = Idle
    /\ UNCHANGED <<risk_manager, position_manager, order_book_manager, engine,
                   emitted, coordinator>>

\* one pass of _trading_loop, down to _execute_signal
TradingLoop ==
    \E r \in {trading_loop(LoopState, now)} :
    LET cid == r.signal.client_order_id
    IN  /\ now >= next_cycle
        /\ ~main_loop.stop_flag
        /\ engine' = r.engine
        /\ risk_manager' = r.risk
        /\ pending_orders' = r.pending
        /\ sampling_notified' = r.notified
        /\ next_cycle' = now + 1
        /\ emitted' = IF r.signal = NoSignal THEN emitted
                      ELSE Append(emitted, r.signal.timestamp)
        /\ history' = IF r.ok
                      THEN MapPut(history, cid,
                                  [HistoryOf(cid) EXCEPT !.dispatched = TRUE])
                      ELSE history
        /\ ret' = [op |-> "trading_loop", t |-> now, signal |-> r.signal,
                   ok |-> r.ok, dispatched |-> r.pending # pending_orders,
                   edgex_side |-> IF r.signal = NoSignal THEN "none"
                                  ELSE r.signal.edgex_side,
                   quantity |-> order_quantity,
                   risk |-> risk_manager, pm |-> position_manager,
                   triggered_after |-> r.risk.circuit_breaker_triggered,
                   is_sampling |-> r.engine.is_sampling,
                   sample_count |-> r.engine.sample_count]
        /\ UNCHANGED <<loop_vars, clients, now, position_manager, order_book_manager, edgex_ready,
                       latency_monitor, lighter_client, hedge, lighter_orders,
                       msgs>>

\* QuietSeconds seconds in which nothing happens but the passes of the
\* trading loop, and each pass changes nothing: the front-end or a book is
\* not ready, the engine is paused or the spread is absent, none of which
\* depends on the time.  The pass of the last second is still due.
QuietPeriod ==
    /\ next_cycle > now
    /\ (now - StartTime) \div QuietSeconds < MaxQuiet
    /\ trading_loop(LoopState, now + 1) = LoopState
    /\ now' = now + QuietSeconds
    /\ next_cycle' = now + QuietSeconds
    /\ ret' = Idle
    /\ UNCHANGED <<loop_vars, clients, risk_manager, position_manager, order_book_manager, engine,
                   emitted, edgex_ready, sampling_notified, pending_orders,
                   latency_monitor, lighter_client, hedge, lighter_orders,
                   history, msgs>>

\* _handle_connection: the front-end's socket opens and its entry is made
ClientConnect ==
    /\ clients = "none"
    /\ ThreadFree
    /\ clients' = "connected"
    /\ ret' = Idle
    /\ UNCHANGED <<now, risk_manager, position_manager, order_book_manager,
                   engine, emitted, edgex_ready, sampling_notified,
                   pending_orders, latency_monitor, next_cycle, lighter_client,
                   hedge, lighter_orders, history, msgs, loop_vars>>

\* _handle_connection's finally for a client that never sent
\* frontend_ready: the entry is deleted and no callback is fired
ClientClose ==
    /\ clients = "connected"
    /\ ThreadFree
    /\ clients' = "none"
    /\ ret' = Idle
    /\ UNCHANGED <<now, risk_manager, position_manager, order_book_manager,
                   engine, emitted, edgex_ready, sampling_notified,
                   pending_orders, latency_monitor, next_cycle, lighter_client,
                   hedge, lighter_orders, history, msgs, loop_vars>>

\* frontend_ready handled by the bridge, and _on_frontend_ready for the
\* edgex front-end
FrontendReady ==
    /\ clients = "connected"
    /\ ~hedge.active
    /\ ThreadFree
    /\ clients' = "ready"
    /\ edgex_ready' = TRUE
    /\ ret' = Idle
    /\ UNCHANGED <<loop_vars, now, risk_manager, position_manager, order_book_manager,
                   engine, emitted, sampling_notified, pending_orders,
                   latency_monitor, next_cycle, lighter_client, hedge,
                   lighter_orders, history, msgs>>

\* _on_frontend_disconnect for the edgex front-end
FrontendDisconnect ==
    /\ clients = "ready"
    /\ ~hedge.active
    /\ ThreadFree
    /\ msgs < MaxMessages
    /\ msgs' = msgs + 1
    /\ clients' = "none"
    /\ edgex_ready' = FALSE
    /\ engine' = pause(engine)
    /\ risk_manager' = record_error(risk_manager, now)
    /\ ret' = Idle
    /\ UNCHANGED <<loop_vars, now, position_manager, order_book_manager, emitted,
                   sampling_notified, pending_orders, latency_monitor,
                   next_cycle, lighter_client, hedge, lighter_orders, history>>

\* _on_order_placed, for a message naming one of ids with one of outcomes
OnOrderPlacedOf(ids, outcomes, limit) ==
    \E cid \in ids, success \in outcomes, order_id \in OrderIds,
       latency \in FrontendLatencies :
        /\ edgex_ready
        /\ ~hedge.active
        /\ msgs < limit
        /\ msgs' = msgs + 1
        /\ latency_monitor' = latency_record(latency_monitor, latency)
        /\ pending_orders' =
               order_placed_pending(pending_orders, cid, success, order_id,
                                    latency)
        /\ risk_manager' = IF success THEN risk_manager
                           ELSE record_error(risk_manager, now)
        /\ history' = MapPut(history, cid,
                             [HistoryOf(cid) EXCEPT !.order_placed = TRUE,
                                                    !.terminal = @ \/ ~success])
        /\ ret' = [op |-> "order_placed", cid |-> cid, success |-> success,
                   order_id |-> order_id, latency |-> latency,
                   was_pending |-> cid \in DOMAIN pending_orders,
                   errors_before |-> risk_manager.error_count]
        /\ UNCHANGED <<loop_vars, clients, now, position_manager, order_book_manager, engine,
                       emitted, edgex_ready, sampling_notified, next_cycle,
                       lighter_client, hedge, lighter_orders>>

OnOrderPlaced == OnOrderPlacedOf(MessageIds, BOOLEAN, MaxMessages)

\* _on_order_update with status FILLED, down to the call of
\* place_market_order, or to the end when no order is placed
OrderUpdateFilled(cid, side, filled) ==
    LET delta == fill_delta(side, filled)
        h == execute_lighter_hedge(
                 [bid |-> lighter_client.best_bid,
                  ask |-> lighter_client.best_ask], side, filled)
        needed == IF side = "buy" THEN lighter_client.best_bid
                  ELSE lighter_client.best_ask
        was == HistoryOf(cid)
        open == BumpOthers(lighter_orders, delta)
    IN  /\ position_manager' = update_edgex_position(position_manager, delta)
        /\ history' =
             MapPut(history, cid,
                 [was EXCEPT
                    !.fills = @ + 1,
                    !.priced = @ + (IF needed # None THEN 1 ELSE 0),
                    !.placements = @ + (IF h.placed THEN 1 ELSE 0),
                    !.hedged_early =
                        @ \/ (h.placed /\ ~(was.dispatched /\ was.order_placed)),
                    !.terminal = @ \/ ~h.placed,
                    !.failed_hedges = @ + (IF h.placed THEN 0 ELSE 1)])
        /\ IF h.placed
           THEN \E success \in BOOLEAN :
                  /\ hedge' = [active |-> TRUE, cid |-> cid, success |-> success,
                               net_before |-> get_net_position(position_manager),
                               delta |-> delta]
                  /\ ret' = Idle
                  /\ lighter_orders' =
                       IF success
                       THEN Append(open,
                                [side |-> h.side, quantity |-> h.quantity,
                                 before |-> get_net_position(position_manager),
                                 others |-> 0])
                       ELSE open
                  /\ UNCHANGED <<risk_manager, pending_orders>>
           ELSE /\ risk_manager' =
                     record_trade(risk_manager, trade_success(FALSE), 0, now)
                /\ pending_orders' = MapDel(pending_orders, cid)
                /\ lighter_orders' = open
                /\ ret' = FilledOutcome(cid, FALSE, FALSE, h.error,
                              risk_manager, risk_manager',
                              get_net_position(position_manager),
                              get_net_position(position_manager'), delta)
                /\ UNCHANGED hedge

\* the CANCELED branch leaving the entry in the map
OrderUpdateCanceledKept(cid) ==
    /\ history' = MapPut(history, cid, [HistoryOf(cid) EXCEPT !.terminal = TRUE])
    /\ ret' = [op |-> "order_canceled", cid |-> cid,
               was_pending |-> cid \in DOMAIN pending_orders]
    /\ UNCHANGED <<risk_manager, position_manager, pending_orders, hedge,
                   lighter_orders>>

\* _on_order_update with status CANCELED
OrderUpdateCanceled(cid) ==
    /\ pending_orders' = MapDel(pending_orders, cid)
    /\ history' = MapPut(history, cid, [HistoryOf(cid) EXCEPT !.terminal = TRUE])
    /\ ret' = [op |-> "order_canceled", cid |-> cid,
               was_pending |-> cid \in DOMAIN pending_orders]
    /\ UNCHANGED <<risk_manager, position_manager, hedge, lighter_orders>>

\* _on_order_update with any other status: neither branch is taken
OrderUpdateOther(cid, status) ==
    /\ history' = MapPut(history, cid,
                         [HistoryOf(cid) EXCEPT
                             !.terminal = @ \/ status = "REJECTED"])
    /\ ret' = Idle
    /\ UNCHANGED <<risk_manager, position_manager, pending_orders, hedge,
                   lighter_orders>>

\* _on_order_update
OnOrderUpdate ==
    \E cid \in MessageIds, status \in OrderStatuses, side \in Sides,
       filled \in FillSizes :
        /\ edgex_ready
        /\ ~hedge.active
        /\ msgs < MaxMessages
        /\ msgs' = msgs + 1
        /\ CASE status = "FILLED" -> OrderUpdateFilled(cid, side, filled)
             [] status = "CANCELED" -> OrderUpdateCanceled(cid)
             [] OTHER -> OrderUpdateOther(cid, status)
        /\ UNCHANGED <<loop_vars, clients, now, order_book_manager, engine, emitted, edgex_ready,
                       sampling_notified, latency_monitor, next_cycle,
                       lighter_client>>

\* place_market_order returns: the rest of _execute_lighter_hedge and of the
\* FILLED branch of _on_order_update
HedgeReturn ==
    /\ hedge.active
    /\ risk_manager' =
           record_trade(IF hedge.success THEN risk_manager
                        ELSE record_error(risk_manager, now),
                        trade_success(hedge.success), 0, now)
    /\ pending_orders' = MapDel(pending_orders, hedge.cid)
    /\ history' = MapPut(history, hedge.cid,
                         [HistoryOf(hedge.cid) EXCEPT
                             !.terminal = TRUE,
                             !.failed_hedges =
                                 @ + (IF hedge.success THEN 0 ELSE 1)])
    /\ hedge' = NoHedge
    /\ ret' = FilledOutcome(hedge.cid, TRUE, hedge.success,
                  IF hedge.success THEN "none" ELSE "venue L refused",
                  risk_manager, risk_manager', hedge.net_before,
                  get_net_position(position_manager), hedge.delta)
    /\ UNCHANGED <<loop_vars, clients, now, position_manager, order_book_manager, engine, emitted,
                   edgex_ready, sampling_notified, latency_monitor, next_cycle,
                   lighter_client, lighter_orders, msgs>>

\* LighterClient._update_order_book: the new top of book, and the
\* market-data callback it schedules
LighterStreamFor(tops, cap) ==
    \E q \in tops :
        /\ Len(lighter_client.tasks) < cap
        /\ lighter_client' =
               [lighter_client EXCEPT
                  !.best_bid = q[1], !.best_ask = q[2],
                  !.tasks = Append(@,
                             [best_bid |-> IF Truthy(q[1]) THEN q[1] ELSE None,
                              best_ask |-> IF Truthy(q[2]) THEN q[2] ELSE None])]
        /\ ret' = Idle
        /\ UNCHANGED <<loop_vars, clients, now, risk_manager, position_manager, order_book_manager,
                       engine, emitted, edgex_ready, sampling_notified,
                       pending_orders, latency_monitor, next_cycle, hedge,
                       lighter_orders, history, msgs>>

LighterStreamOf(tops) == LighterStreamFor(tops, MaxTasks)

LighterStream == LighterStreamOf(LighterTops)

\* _on_lighter_market_data, run as the task _update_order_book created
OnLighterMarketData ==
    /\ lighter_client.tasks # <<>>
    /\ LET data == Head(lighter_client.tasks)
       IN  order_book_manager' =
               IF data.best_bid # None /\ data.best_ask # None
               THEN update_lighter_bbo(order_book_manager,
                                       data.best_bid, data.best_ask)
               ELSE order_book_manager
    /\ lighter_client' = [lighter_client EXCEPT !.tasks = Tail(@)]
    /\ ret' = Idle
    /\ UNCHANGED <<loop_vars, clients, now, risk_manager, position_manager, engine, emitted,
                   edgex_ready, sampling_notified, pending_orders,
                   latency_monitor, next_cycle, hedge, lighter_orders, history,
                   msgs>>

\* _on_lighter_order_update with status FILLED, for a resting hedge order
LighterOrderUpdate ==
    \E i \in DOMAIN lighter_orders :
        LET o == lighter_orders[i]
            delta == fill_delta(o.side, o.quantity)
            after == update_lighter_position(position_manager, delta)
        IN  /\ position_manager' = after
            /\ lighter_orders' = BumpOthers(RemoveAt(lighter_orders, i), delta)
            /\ ret' = [op |-> "lighter_fill", side |-> o.side,
                       quantity |-> o.quantity, net_before |-> o.before,
                       others |-> o.others,
                       net_after |-> get_net_position(after)]
            /\ UNCHANGED <<loop_vars, clients, now, risk_manager, order_book_manager, engine,
                           emitted, edgex_ready, sampling_notified,
                           pending_orders, latency_monitor, next_cycle,
                           lighter_client, hedge, history, msgs>>

Next ==
    \/ Tick
    \/ TradingLoop
    \/ ClientConnect
    \/ ClientClose
    \/ FrontendReady
    \/ FrontendDisconnect
    \/ EdgexMarketData
    \/ LighterStream
    \/ OnLighterMarketData
    \/ OnOrderPlaced
    \/ OnOrderUpdate
    \/ HedgeReturn
    \/ LighterOrderUpdate

Spec == SystemInit /\ [][Next]_vars

(***************************************************************************)
(* SpecBreaker: the Risk Gate under the trading loop, with the errors the  *)
(* order_placed handler records, over more than the breaker's 300 s        *)
(***************************************************************************)
\* the tops of venue L's book here: one quiet, one that opens a long spread
BreakerTops == {<<10, 11>>, <<16, 17>>}

\* venue L's book moves between the tops above
BreakerLighterStream == LighterStreamOf(BreakerTops)

\* the front-end reports a failed placement: enough of them to trip the
\* breaker, and one more
OrderFailed ==
    OnOrderPlacedOf({ForeignId}, {FALSE}, circuit_breaker_threshold + 1)

BreakerNext ==
    \/ Tick
    \/ QuietPeriod
    \/ TradingLoop
    \/ ClientConnect
    \/ FrontendReady
    \/ EdgexMarketData
    \/ BreakerLighterStream
    \/ OnLighterMarketData
    \/ OrderFailed

SpecBreaker == SystemInit /\ [][BreakerNext]_vars

(***************************************************************************)
(* SpecLoop: start() and _trading_loop step by step on the one thread of   *)
(* the event loop, with the calls of the ledger and its lock.  Spec and    *)
(* SpecBreaker follow the loop down to _execute_signal and leave the       *)
(* periodic snapshot and status log to the steps below.                    *)
(***************************************************************************)
\* snapshot_interval of _trading_loop, seconds
snapshot_interval == 60
\* the status log is due when more than this many seconds have passed
status_log_interval == 30
\* times the loop wakes from a sleep in a run
MaxPasses == 2
\* sizes of the ledger's two positions stay within this, in order quantities
LedgerRange == 1

\* the size of the account's position venue L reports over REST
VenueSizes == {-1, 0, 1}

\* the delta or size handed to the update_ and set_ methods
LedgerArgs == {-1, 1}

\* start() at "Waiting for EdgeX frontend to connect..."
LoopStart ==
    [pc |-> "waiting", stop_flag |-> FALSE, cycle_start |-> 0,
     last_snapshot |-> 0, last_status_log |-> 0, passes |-> 0,
     stop_calls |-> <<>>]

LoopInit ==
    /\ now = StartTime
    /\ risk_manager = RiskInit
    /\ position_manager = [edgex |-> 0, lighter |-> 0]
    /\ order_book_manager = BookInit
    /\ engine = EngineInit
    /\ emitted = <<>>
    /\ ret = [op |-> "init"]
    /\ edgex_ready = FALSE
    /\ sampling_notified = FALSE
    /\ pending_orders = EmptyMap
    /\ latency_monitor = <<>>
    /\ next_cycle = now
    /\ lighter_client = LighterClientInit
    /\ hedge = NoHedge
    /\ lighter_orders = <<>>
    /\ history = EmptyMap
    /\ msgs = 0
    /\ clients = "none"
    /\ ledger_lock = FALSE
    /\ call_stack = <<>>
    /\ main_loop = LoopStart
    /\ notified = NothingNotified

\* what the steps of the ledger's calls leave alone
ledger_frame == <<now, risk_manager, order_book_manager, engine, emitted,
                  edgex_ready, sampling_notified, pending_orders,
                  latency_monitor, next_cycle, lighter_client, hedge,
                  lighter_orders, history, msgs, clients, notified>>

\* what the steps of start() and of the loop leave alone, the engine, the
\* risk manager and the ledger apart
loop_frame == <<order_book_manager, edgex_ready, latency_monitor, next_cycle,
                lighter_client, hedge, lighter_orders, msgs, clients,
                notified>>

TopFrame == call_stack[Len(call_stack)]

SetTop(f) == [call_stack EXCEPT ![Len(call_stack)] = f]

Pop == SubSeq(call_stack, 1, Len(call_stack) - 1)

\* a handler (an order update of either venue, the risk gate, the /status
\* command) calls a method of the ledger
LedgerCall ==
    \E op \in LedgerOps, arg \in LedgerArgs \cup {0} :
        /\ ThreadFree
        /\ (arg # 0) = (op \in {"update_edgex_position", "set_edgex_position",
                                "update_lighter_position",
                                "set_lighter_position"})
        /\ Abs(LedgerEffect(position_manager, op, arg).edgex) <= LedgerRange
        /\ Abs(LedgerEffect(position_manager, op, arg).lighter) <= LedgerRange
        /\ call_stack' = <<Frame(op, arg)>>
        /\ ret' = Idle
        /\ UNCHANGED <<ledger_frame, position_manager, ledger_lock, main_loop>>

\* "with self._lock" of the method on top: threading.Lock is not reentrant,
\* the thread passes only when nobody holds the lock, itself included
LedgerAcquire ==
    /\ call_stack # <<>>
    /\ TopFrame.pc = "enter"
    /\ ~ledger_lock
    /\ ledger_lock' = TRUE
    /\ call_stack' = SetTop([TopFrame EXCEPT !.pc = "body"])
    /\ ret' = Idle
    /\ UNCHANGED <<ledger_frame, position_manager, main_loop>>

\* the method on top calls the next ledger method of its body
LedgerNested ==
    /\ call_stack # <<>>
    /\ TopFrame.pc = "body"
    /\ TopFrame.todo # <<>>
    /\ call_stack' = Append(SetTop([TopFrame EXCEPT !.todo = Tail(@)]),
                            Frame(Head(TopFrame.todo), 0))
    /\ ret' = Idle
    /\ UNCHANGED <<ledger_frame, position_manager, ledger_lock, main_loop>>

\* the loop after log_snapshot, whose arguments are now evaluated: the
\* status log is next when it is due, the end-of-cycle sleep otherwise
AfterSnapshot(ml) ==
    LET m == [ml EXCEPT !.last_snapshot = ml.cycle_start]
    IN  IF m.cycle_start - m.last_status_log > status_log_interval
        THEN [m EXCEPT !.pc = "status_log"]
        ELSE [m EXCEPT !.pc = "asleep"]

\* the loop after _log_status
AfterStatusLog(ml) ==
    [ml EXCEPT !.last_status_log = ml.cycle_start, !.pc = "asleep"]

\* the method on top ends: its body takes effect, the with statement
\* releases the lock, and the caller goes on
LedgerReturn ==
    /\ call_stack # <<>>
    /\ TopFrame.pc = "body"
    /\ TopFrame.todo = <<>>
    /\ position_manager' =
           LedgerEffect(position_manager, TopFrame.op, TopFrame.arg)
    /\ ledger_lock' = IF TopFrame.op \in LockedOps THEN FALSE ELSE ledger_lock
    /\ ret' = [op |-> "ledger", method |-> TopFrame.op]
    /\ \E m \in {IF Len(call_stack) > 1 THEN main_loop
                 ELSE IF main_loop.pc = "snapshot" THEN AfterSnapshot(main_loop)
                 ELSE IF main_loop.pc = "status_log"
                      THEN AfterStatusLog(main_loop)
                 ELSE main_loop} :
           /\ main_loop' = m
           /\ call_stack' = IF m.pc = "status_log" /\ Len(call_stack) = 1
                            THEN <<Frame("get_status", 0)>>
                            ELSE Pop
    /\ UNCHANGED ledger_frame

\* start(): the wait for the front-end ends
WaitOver ==
    /\ main_loop.pc = "waiting"
    /\ call_stack = <<>>
    /\ edgex_ready \/ main_loop.stop_flag
    /\ main_loop' = [main_loop EXCEPT
                         !.pc = IF main_loop.stop_flag THEN "done"
                                ELSE "syncing"]
    /\ ret' = Idle
    /\ UNCHANGED <<now, risk_manager, position_manager, engine, emitted,
                   sampling_notified, pending_orders, history, loop_frame,
                   ledger_lock, call_stack>>

\* start(): sync_lighter_position returns, the engine is started and
\* _trading_loop is entered
SyncLighterPosition ==
    \E transport_ok \in BOOLEAN, venue_size \in VenueSizes :
        /\ main_loop.pc = "syncing"
        /\ call_stack = <<>>
        /\ position_manager' =
               sync_lighter_position(position_manager, transport_ok,
                                     venue_size)
        /\ engine' = start(engine)
        /\ main_loop' = [main_loop EXCEPT !.pc = "top"]
        /\ ret' = [op |-> "sync_lighter_position",
                   transport_ok |-> transport_ok, venue_size |-> venue_size,
                   cached_before |-> get_lighter_position(position_manager),
                   cached_after |-> get_lighter_position(position_manager')]
        /\ UNCHANGED <<now, risk_manager, emitted, sampling_notified,
                       pending_orders, history, loop_frame, ledger_lock,
                       call_stack>>

\* "while not self.stop_flag" is false: _trading_loop returns
LoopExit ==
    /\ main_loop.pc = "top"
    /\ main_loop.stop_flag
    /\ main_loop' = [main_loop EXCEPT !.pc = "done"]
    /\ ret' = Idle
    /\ UNCHANGED <<now, risk_manager, position_manager, engine, emitted,
                   sampling_notified, pending_orders, history, loop_frame,
                   ledger_lock, call_stack>>

\* an iteration that finds the front-end or a book not ready: it sleeps and
\* continues
LoopNotReady ==
    /\ main_loop.pc = "top"
    /\ ~main_loop.stop_flag
    /\ ~edgex_ready \/ ~is_ready(order_book_manager)
    /\ main_loop' = [main_loop EXCEPT !.cycle_start = now, !.pc = "asleep"]
    /\ ret' = [op |-> "iteration", raised |-> FALSE, full |-> FALSE]
    /\ UNCHANGED <<now, risk_manager, position_manager, engine, emitted,
                   sampling_notified, pending_orders, history, loop_frame,
                   ledger_lock, call_stack>>

\* an iteration in which a statement of the try body raises: the except
\* clause records the error and the loop goes on to its sleep
LoopRaise ==
    /\ main_loop.pc = "top"
    /\ ~main_loop.stop_flag
    /\ edgex_ready /\ is_ready(order_book_manager)
    /\ risk_manager' = record_error(risk_manager, now)
    /\ main_loop' = [main_loop EXCEPT !.cycle_start = now, !.pc = "asleep"]
    /\ ret' = [op |-> "iteration", raised |-> TRUE, full |-> FALSE]
    /\ UNCHANGED <<now, position_manager, engine, emitted, sampling_notified,
                   pending_orders, history, loop_frame, ledger_lock,
                   call_stack>>

\* an iteration that runs the try body: the signal path, then the snapshot
\* when it is due, whose arguments begin with position_manager.get_status()
LoopPass ==
    \E r \in {trading_loop(LoopState, now)} :
    \E m \in {[main_loop EXCEPT !.cycle_start = now]} :
    LET cid == r.signal.client_order_id
        snapshot_due == m.cycle_start - m.last_snapshot >= snapshot_interval
        status_due == m.cycle_start - m.last_status_log > status_log_interval
    IN  /\ main_loop.pc = "top"
        /\ ~main_loop.stop_flag
        /\ edgex_ready /\ is_ready(order_book_manager)
        /\ engine' = r.engine
        /\ risk_manager' = r.risk
        /\ pending_orders' = r.pending
        /\ sampling_notified' = r.notified
        /\ emitted' = IF r.signal = NoSignal THEN emitted
                      ELSE Append(emitted, r.signal.timestamp)
        /\ history' = IF r.ok
                      THEN MapPut(history, cid,
                                  [HistoryOf(cid) EXCEPT !.dispatched = TRUE])
                      ELSE history
        /\ main_loop' = [m EXCEPT !.pc = IF snapshot_due THEN "snapshot"
                                         ELSE IF status_due THEN "status_log"
                                         ELSE "asleep"]
        /\ call_stack' = IF snapshot_due \/ status_due
                         THEN <<Frame("get_status", 0)>>
                         ELSE <<>>
        /\ ret' = [op |-> "iteration", raised |-> FALSE, full |-> TRUE]
        /\ UNCHANGED <<now, position_manager, loop_frame, ledger_lock>>

\* a sleep of the loop ends, a second later
LoopWake ==
    /\ main_loop.pc = "asleep"
    /\ call_stack = <<>>
    /\ main_loop.passes < MaxPasses
    /\ now' = now + 1
    /\ main_loop' = [main_loop EXCEPT !.pc = "top", !.passes = @ + 1]
    /\ ret' = Idle
    /\ UNCHANGED <<risk_manager, position_manager, engine, emitted,
                   sampling_notified, pending_orders, history, loop_frame,
                   ledger_lock, call_stack>>

\* a signal arrives and the task of stop() runs up to its first await:
\* stop_flag is set and the engine stopped
Stop ==
    /\ ThreadFree
    /\ ~main_loop.stop_flag
    /\ main_loop' = [main_loop EXCEPT !.stop_flag = TRUE,
                                      !.stop_calls =
                                          Append(@, stop_call(position_manager,
                                                     clients, @))]
    /\ engine' = stop(engine)
    /\ ret' = Idle
    /\ UNCHANGED <<now, risk_manager, position_manager, emitted,
                   sampling_notified, pending_orders, history, loop_frame,
                   ledger_lock, call_stack>>

\* the steps the thread takes for start(), the loop and the ledger calls
LoopThread ==
    \/ WaitOver
    \/ SyncLighterPosition
    \/ LoopExit
    \/ LoopNotReady
    \/ LoopRaise
    \/ LoopPass
    \/ LoopWake
    \/ LedgerAcquire
    \/ LedgerNested
    \/ LedgerReturn

\* venue L's book gets its top
LoopLighterMarketData == LighterMarketDataOf({<<10, 11>>})

LoopNext ==
    \/ ClientConnect
    \/ FrontendReady
    \/ FrontendDisconnect
    \/ EdgexMarketData
    \/ LoopLighterMarketData
    \/ LedgerCall
    \/ LedgerAcquire
    \/ LedgerNested
    \/ LedgerReturn
    \/ WaitOver
    \/ SyncLighterPosition
    \/ LoopExit
    \/ LoopNotReady
    \/ LoopRaise
    \/ LoopPass
    \/ LoopWake
    \/ Stop

SpecLoop == LoopInit /\ [][LoopNext]_vars

\* the event loop runs the thread's next step whenever there is one: a
\* sleep ends, a coroutine that can go on does, a call in progress goes on
SpecLoopLive == SpecLoop /\ WF_vars(LoopThread)

(***************************************************************************)
(* SpecBook: the Book Store under the calls of its quote updates           *)
(***************************************************************************)
\* prices of the quotes and levels handed to the Book Store
BookPrices == {10, 11}

\* the bid and ask arguments of update_edgex_bbo and update_lighter_bbo:
\* a quote in order, a crossed one, a locked one and two with one side
BookQuotes ==
    {<<10, 11>>, <<11, 10>>, <<10, 10>>, <<10, None>>, <<None, 11>>}

\* the list of levels for one side of an order book update: empty, or one
\* level with a size (to store) or with size 0 (to delete)
BookLevels == {<<>>} \cup {<<<<p, z>>>> : p \in BookPrices, z \in {0, 1}}

Venues == {"edgex", "lighter"}

BboOf(ob, venue) == IF venue = "edgex" THEN ob.edgex_bbo ELSE ob.lighter_bbo

BookOf(ob, venue) ==
    IF venue = "edgex" THEN ob.edgex_order_book ELSE ob.lighter_order_book

ReadyOf(ob, venue) ==
    IF venue = "edgex" THEN ob.edgex_ready ELSE ob.lighter_ready

\* update_edgex_bbo or update_lighter_bbo is called
UpdateBboCall ==
    \E venue \in Venues, q \in BookQuotes :
        /\ order_book_manager' =
               IF venue = "edgex"
               THEN update_edgex_bbo(order_book_manager, q[1], q[2])
               ELSE update_lighter_bbo(order_book_manager, q[1], q[2])
        /\ ret' = [op |-> "update_bbo", venue |-> venue, bid |-> q[1],
                   ask |-> q[2], before |-> BboOf(order_book_manager, venue)]
        /\ UNCHANGED <<now, risk_manager, position_manager, engine, emitted>>
        /\ UNCHANGED coordinator

\* update_edgex_order_book or update_lighter_order_book is called
UpdateOrderBookCall ==
    \E venue \in Venues, bids \in BookLevels, asks \in BookLevels,
       is_snapshot \in BOOLEAN :
        /\ order_book_manager' =
               IF venue = "edgex"
               THEN update_edgex_order_book(order_book_manager, bids, asks,
                                            is_snapshot)
               ELSE update_lighter_order_book(order_book_manager, bids, asks,
                                              is_snapshot)
        /\ ret' = [op |-> "update_order_book", venue |-> venue]
        /\ UNCHANGED <<now, risk_manager, position_manager, engine, emitted>>
        /\ UNCHANGED coordinator

\* get_spread is called
GetSpreadCall ==
    /\ ret' = [op |-> "get_spread", spread |-> get_spread(order_book_manager)]
    /\ UNCHANGED <<now, risk_manager, position_manager, order_book_manager,
                   engine, emitted>>
    /\ UNCHANGED coordinator

BookNext ==
    \/ UpdateBboCall
    \/ GetSpreadCall

SpecBook == EngineSpecInit /\ [][BookNext]_vars

\* the Book Store fed with order book updates only
OrderBookNext ==
    \/ UpdateOrderBookCall
    \/ GetSpreadCall

SpecOrderBook == EngineSpecInit /\ [][OrderBookNext]_vars

(***************************************************************************)
(* SpecStop: the coordinator of Spec with shutdown: stop() as the task the *)
(* signal handler creates and as the call in main()'s finally, each going  *)
(* on from await to await while the handlers and the loop run in between   *)
(***************************************************************************)
\* a call of stop() goes on after its await and runs its next segment
StopStep ==
    \E i \in DOMAIN main_loop.stop_calls :
        LET c == main_loop.stop_calls[i]
        IN  /\ ThreadFree
            /\ c.segment < Len(StopSegments)
            /\ main_loop' =
                   [main_loop EXCEPT
                        !.stop_calls[i] =
                            [segment |-> c.segment + 1,
                             log |-> c.log \o StopSegments[c.segment + 1]]]
            /\ ret' = Idle
            /\ UNCHANGED <<now, risk_manager, position_manager, engine,
                           emitted, sampling_notified, pending_orders,
                           history, loop_frame, ledger_lock, call_stack>>

\* the loop's sleep ends, the loop finds stop_flag set and returns, start()
\* returns, and the finally of main() calls stop(), which runs up to its
\* first await
StopFinally ==
    /\ ThreadFree
    /\ main_loop.pc = "loop"
    /\ main_loop.stop_flag
    /\ now' = Max(now, next_cycle)
    /\ main_loop' = [main_loop EXCEPT !.pc = "done",
                                      !.stop_calls =
                                          Append(@, stop_call(position_manager,
                                                     clients, @))]
    /\ engine' = stop(engine)
    /\ ret' = Idle
    /\ UNCHANGED <<risk_manager, position_manager, emitted,
                   sampling_notified, pending_orders, history, loop_frame,
                   ledger_lock, call_stack>>

StopNext ==
    \/ Tick
    \/ TradingLoop
    \/ ClientConnect
    \/ FrontendReady
    \/ EdgexMarketData
    \/ BreakerLighterStream
    \/ OnLighterMarketData
    \/ Stop
    \/ StopStep
    \/ StopFinally

SpecStop == SystemInit /\ [][StopNext]_vars

(***************************************************************************)
(* SpecThresholds: the Signal Engine sampling long enough for the periodic *)
(* recomputation of the thresholds to come up                              *)
(***************************************************************************)
\* check_arbitrage_opportunity is called while sample_count is below this
MaxThresholdSamples == 11

ThresholdCheckCall == CheckOpportunityOf(MaxThresholdSamples, {0})

ThresholdsNext ==
    \/ EdgexMarketData
    \/ LighterMarketData
    \/ ThresholdCheckCall
    \/ StartCall
    \/ ResetSamplingCall

SpecThresholds == EngineSpecInit /\ [][ThresholdsNext]_vars

(***************************************************************************)
(* SpecZeroSamples: the Signal Engine of SpecEngine constructed with       *)
(* min_samples = 0, its histories being deque(maxlen=0)                    *)
(***************************************************************************)
ZeroSamplesInit ==
    /\ now = StartTime
    /\ risk_manager = RiskInit
    /\ position_manager = [edgex |-> 0, lighter |-> 0]
    /\ order_book_manager = BookInit
    /\ engine = ArbitrageEngine(0)
    /\ emitted = <<>>
    /\ ret = [op |-> "init"]
    /\ CoordinatorInit

SpecZeroSamples == ZeroSamplesInit /\ [][EngineNext]_vars

(***************************************************************************)
(* SpecDirection: the Signal Engine of SpecEngine with venue-L quotes wide *)
(* and narrow, so that both spreads can exceed their thresholds at once    *)
(***************************************************************************)
\* venue-L quotes <<bid, ask>>: a wide one, a narrow one, one above and one
\* below the venue-F quote
DirectionQuotes == {<<7, 14>>, <<10, 11>>, <<16, 17>>, <<3, 4>>}

DirectionLighterMarketData == LighterMarketDataOf(DirectionQuotes)

DirectionNext ==
    \/ EngineTick
    \/ EdgexMarketData
    \/ DirectionLighterMarketData
    \/ EdgexFill
    \/ CheckOpportunityCall
    \/ StartCall

SpecDirection == EngineSpecInit /\ [][DirectionNext]_vars

(***************************************************************************)
(* SpecOrderIds: generate_client_order_id (utils/helpers.py) called under  *)
(* a millisecond clock; ret keeps the clock reading and the ids returned   *)
(***************************************************************************)
\* milliseconds the clock advances past StartTime
MaxClockMs == 2
\* calls of generate_client_order_id in a run
MaxIds == 3

Prefixes == {"arb", "hedge"}

\* f"{prefix}_{timestamp}" with timestamp = int(time.time() * 1000): the
\* string is kept as the pair it is formatted from
generate_client_order_id(prefix, epoch_ms) == <<prefix, epoch_ms>>

OrderIdsInit ==
    /\ now = StartTime
    /\ risk_manager = RiskInit
    /\ position_manager = [edgex |-> 0, lighter |-> 0]
    /\ order_book_manager = BookInit
    /\ engine = EngineInit
    /\ emitted = <<>>
    /\ ret = [op |-> "init", epoch_ms |-> StartTime * 1000, ids |-> <<>>]
    /\ CoordinatorInit

\* the clock goes on by a millisecond
ClockMs ==
    /\ ret.epoch_ms < StartTime * 1000 + MaxClockMs
    /\ ret' = [ret EXCEPT !.op = "clock", !.epoch_ms = @ + 1]
    /\ UNCHANGED <<now, risk_manager, position_manager, order_book_manager,
                   engine, emitted>>
    /\ UNCHANGED coordinator

GenerateClientOrderIdCall ==
    \E prefix \in Prefixes :
        /\ Len(ret.ids) < MaxIds
        /\ ret' = [ret EXCEPT
                     !.op = "generate_client_order_id",
                     !.ids = Append(@, generate_client_order_id(prefix,
                                                                ret.epoch_ms))]
        /\ UNCHANGED <<now, risk_manager, position_manager,
                       order_book_manager, engine, emitted>>
        /\ UNCHANGED coordinator

OrderIdsNext ==
    \/ ClockMs
    \/ GenerateClientOrderIdCall

SpecOrderIds == OrderIdsInit /\ [][OrderIdsNext]_vars

(***************************************************************************)
(* SpecReconnect: LighterClient._run_websocket, connecting, losing the     *)
(* connection and sleeping before it connects again, and close()           *)
(***************************************************************************)
\* seconds of reconnect delay a run may add up before it stops connecting
MaxWsTime == 62

max_reconnect_delay == 30

\* the delay with the cap left out
reconnect_delay_uncapped(reconnect_count) == 2 ^ reconnect_count

\* delay = min(2 ** reconnect_count, max_reconnect_delay)
reconnect_delay(reconnect_count) ==
    IF 2 ^ reconnect_count < max_reconnect_delay
    THEN 2 ^ reconnect_count ELSE max_reconnect_delay

\* the end of a pass of the while loop after the connection failed or ended:
\* the except clause, then the reconnect bookkeeping unless _ws_stop is set
ws_after_close(lc, exception) ==
    LET lc1 == [lc EXCEPT !.ws_connected = IF exception THEN FALSE ELSE @,
                          !.ws.failures = @ + 1]
    IN  IF ~lc1.ws_stop
        THEN [lc1 EXCEPT !.ws.reconnect_count = @ + 1,
                         !.ws.delay = reconnect_delay(lc.ws.reconnect_count + 1),
                         !.ws.pc = "sleeping"]
        ELSE [lc1 EXCEPT !.ws.pc = "loop"]

WsUnchanged ==
    /\ UNCHANGED <<risk_manager, position_manager, order_book_manager, engine,
                   emitted, edgex_ready, sampling_notified, pending_orders,
                   latency_monitor, next_cycle, hedge, lighter_orders,
                   history, msgs, clients, loop_vars>>

\* while not self._ws_stop
WsLoopTest ==
    /\ lighter_client.ws.pc = "loop"
    /\ lighter_client' =
           [lighter_client EXCEPT
              !.ws.pc = IF lighter_client.ws_stop THEN "done" ELSE "connecting"]
    /\ ret' = [op |-> IF lighter_client.ws_stop THEN "ws_exit" ELSE "ws_connect"]
    /\ UNCHANGED now
    /\ WsUnchanged

\* websockets.connect returns a connection, or raises
WsConnect ==
    \E ok \in BOOLEAN :
        /\ lighter_client.ws.pc = "connecting"
        /\ ok \/ now < StartTime + MaxWsTime
        /\ lighter_client' =
               IF ok
               THEN [lighter_client EXCEPT !.ws_connected = TRUE,
                                           !.ws.reconnect_count = 0,
                                           !.ws.failures = 0,
                                           !.ws.pc = "open"]
               ELSE ws_after_close(lighter_client, TRUE)
        /\ ret' = [op |-> IF ok THEN "ws_open" ELSE "ws_failed"]
        /\ UNCHANGED now
        /\ WsUnchanged

\* the open connection ends: the iteration over its messages stops, or raises
WsClosed ==
    \E exception \in BOOLEAN :
        /\ lighter_client.ws.pc = "open"
        /\ now < StartTime + MaxWsTime
        /\ lighter_client' = ws_after_close(lighter_client, exception)
        /\ ret' = [op |-> "ws_closed"]
        /\ UNCHANGED now
        /\ WsUnchanged

\* asyncio.sleep(delay) returns
WsWake ==
    /\ lighter_client.ws.pc = "sleeping"
    /\ now' = now + lighter_client.ws.delay
    /\ lighter_client' = [lighter_client EXCEPT !.ws.pc = "loop"]
    /\ ret' = [op |-> "ws_wake"]
    /\ WsUnchanged

\* close(): _ws_stop is set; with a connection open close() awaits ws.close()
\* and the task goes on meanwhile, otherwise the task is cancelled where it
\* waits
WsClose ==
    /\ ~lighter_client.ws_stop
    /\ lighter_client' =
           [lighter_client EXCEPT
              !.ws_stop = TRUE,
              !.ws.pc = IF lighter_client.ws.pc = "open" THEN "open" ELSE "done"]
    /\ ret' = [op |-> "close"]
    /\ UNCHANGED now
    /\ WsUnchanged

\* close() after ws.close(): self.ws_task.cancel()
WsCancel ==
    /\ lighter_client.ws_stop
    /\ lighter_client.ws.pc # "done"
    /\ lighter_client' = [lighter_client EXCEPT !.ws.pc = "done"]
    /\ ret' = [op |-> "cancel"]
    /\ UNCHANGED now
    /\ WsUnchanged

ReconnectNext ==
    \/ WsLoopTest
    \/ WsConnect
    \/ WsClosed
    \/ WsWake
    \/ WsClose
    \/ WsCancel

SpecReconnect == EngineSpecInit /\ [][ReconnectNext]_vars

(***************************************************************************)
(* SpecSameBook: every order book update is handed both to the venue-L     *)
(* client and to the Book Store's venue-L book                             *)
(***************************************************************************)
SameBookUpdate ==
    \E bids \in BookLevels, asks \in BookLevels, is_snapshot \in BOOLEAN :
        /\ lighter_client' =
               client_update_order_book(lighter_client, bids, asks, is_snapshot)
        /\ order_book_manager' =
               update_lighter_order_book(order_book_manager, bids, asks,
                                         is_snapshot)
        /\ ret' = [op |-> "update_order_book", venue |-> "lighter",
                   bids |-> bids, asks |-> asks, is_snapshot |-> is_snapshot]
        /\ UNCHANGED <<now, risk_manager, position_manager, engine, emitted,
                       edgex_ready, sampling_notified, pending_orders,
                       latency_monitor, next_cycle, hedge, lighter_orders,
                       history, msgs, clients, loop_vars>>

SpecSameBook == EngineSpecInit /\ [][SameBookUpdate]_vars

(***************************************************************************)
(* SpecStreamOrder: the venue-L stream task handling book updates while    *)
(* the callbacks it created wait for their turn on the event loop          *)
(***************************************************************************)
\* market-data callbacks that may wait at once here
MaxPendingTasks == 3

\* the stream task handles the next update
OrderedLighterStream == LighterStreamFor(LighterTops, MaxPendingTasks)

StreamOrderNext ==
    \/ OrderedLighterStream
    \/ OnLighterMarketData

SpecStreamOrder == EngineSpecInit /\ [][StreamOrderNext]_vars

(***************************************************************************)
(* SpecClients: the bridge server with several front-end connections;      *)
(* clients is WebSocketServer.clients by client id, each entry with its    *)
(* exchange role and is_ready                                              *)
(***************************************************************************)
\* remote addresses front-ends connect from
ClientIds == {"c1", "c2"}

\* exchange named in a frontend_ready message
Roles == {"edgex", "lighter"}

Commands == {"execute_order", "cancel_order", "emergency_close"}

\* broadcast(message, exchange): the clients the message is sent to
broadcast(cl, exchange) ==
    {c \in DOMAIN cl : cl[c].is_ready /\ cl[c].exchange = exchange}

ClientsInit ==
    /\ now = StartTime
    /\ risk_manager = RiskInit
    /\ position_manager = [edgex |-> 0, lighter |-> 0]
    /\ order_book_manager = BookInit
    /\ engine = start(EngineInit)
    /\ emitted = <<>>
    /\ ret = [op |-> "init"]
    /\ edgex_ready = FALSE
    /\ sampling_notified = FALSE
    /\ pending_orders = EmptyMap
    /\ latency_monitor = <<>>
    /\ next_cycle = now
    /\ lighter_client = LighterClientInit
    /\ hedge = NoHedge
    /\ lighter_orders = <<>>
    /\ history = EmptyMap
    /\ msgs = 0
    /\ clients = EmptyMap
    /\ ledger_lock = FALSE
    /\ call_stack = <<>>
    /\ main_loop = LoopIdle
    /\ notified = NothingNotified

\* _handle_connection up to its message loop: an entry under the new id
HandleConnection ==
    \E c \in ClientIds \ DOMAIN clients :
        /\ clients' = MapPut(clients, c, [exchange |-> "", is_ready |-> FALSE])
        /\ ret' = [op |-> "connection"]
        /\ UNCHANGED <<now, risk_manager, position_manager, order_book_manager,
                       engine, emitted, edgex_ready, sampling_notified,
                       pending_orders, latency_monitor, next_cycle,
                       lighter_client, hedge, lighter_orders, history, msgs,
                       loop_vars>>

\* _handle_message for frontend_ready, and _on_frontend_ready
HandleFrontendReady ==
    \E c \in DOMAIN clients, exchange \in Roles :
        /\ clients' = [clients EXCEPT ![c] = [exchange |-> exchange,
                                              is_ready |-> TRUE]]
        /\ edgex_ready' = IF exchange = "edgex" THEN TRUE ELSE edgex_ready
        /\ ret' = [op |-> "frontend_ready"]
        /\ UNCHANGED <<now, risk_manager, position_manager, order_book_manager,
                       engine, emitted, sampling_notified, pending_orders,
                       latency_monitor, next_cycle, lighter_client, hedge,
                       lighter_orders, history, msgs, loop_vars>>

\* _handle_connection's finally, and _on_frontend_disconnect for a client
\* that was ready
HandleDisconnect ==
    \E c \in DOMAIN clients :
        LET edgex_left == clients[c].is_ready /\ clients[c].exchange = "edgex"
        IN  /\ edgex_left => msgs < MaxMessages
            /\ clients' = MapDel(clients, c)
            /\ msgs' = IF edgex_left THEN msgs + 1 ELSE msgs
            /\ edgex_ready' = IF edgex_left THEN FALSE ELSE edgex_ready
            /\ engine' = IF edgex_left THEN pause(engine) ELSE engine
            /\ risk_manager' = IF edgex_left
                               THEN record_error(risk_manager, now)
                               ELSE risk_manager
            /\ ret' = [op |-> "disconnect"]
            /\ UNCHANGED <<now, position_manager, order_book_manager, emitted,
                           sampling_notified, pending_orders, latency_monitor,
                           next_cycle, lighter_client, hedge, lighter_orders,
                           history, loop_vars>>

\* execute_order, cancel_order or emergency_close: send_to_edgex
SendToEdgex ==
    \E command \in Commands :
        /\ ret' = [op |-> command, delivered |-> broadcast(clients, "edgex")]
        /\ UNCHANGED <<now, risk_manager, position_manager, order_book_manager,
                       engine, emitted, edgex_ready, sampling_notified,
                       pending_orders, latency_monitor, next_cycle,
                       lighter_client, hedge, lighter_orders, history, msgs,
                       clients, loop_vars>>

ClientsNext ==
    \/ HandleConnection
    \/ HandleFrontendReady
    \/ HandleDisconnect
    \/ SendToEdgex

SpecClients == ClientsInit /\ [][ClientsNext]_vars


(***************************************************************************)
(* SpecPending: the trading loop admitting signals while earlier orders    *)
(* are still pending, and the front-end filling each dispatched order once *)
(***************************************************************************)
\* single seconds the clock runs here: the warm-up and three signals
MaxPendingTicks == 6
\* FILLED messages in a run
MaxFills == 3

\* a second passes, the trading loop having made its pass for this one
PendingTick ==
    /\ next_cycle > now
    /\ now - StartTime < MaxPendingTicks
    /\ now' = now + 1
    /\ ret' = Idle
    /\ UNCHANGED <<risk_manager, position_manager, order_book_manager, engine,
                   emitted, coordinator>>

\* _on_order_update with status FILLED for an order in the pending map that
\* has not been filled before, side and size those of its signal
FillDispatched ==
    \E cid \in DOMAIN pending_orders :
        /\ edgex_ready
        /\ ~hedge.active
        /\ HistoryOf(cid).fills = 0
        /\ msgs < MaxFills
        /\ msgs' = msgs + 1
        /\ OrderUpdateFilled(cid, pending_orders[cid].signal.edgex_side,
                             order_quantity)
        /\ UNCHANGED <<loop_vars, clients, now, order_book_manager, engine,
                       emitted, edgex_ready, sampling_notified,
                       latency_monitor, next_cycle, lighter_client>>

PendingNext ==
    \/ PendingTick
    \/ TradingLoop
    \/ ClientConnect
    \/ FrontendReady
    \/ EdgexMarketData
    \/ BreakerLighterStream
    \/ OnLighterMarketData
    \/ FillDispatched
    \/ HedgeReturn

SpecPending == SystemInit /\ [][PendingNext]_vars


(***************************************************************************)
(* SpecFlatten: shutdown with a position held on venue F: the coordinator  *)
(* of SpecStop with the fills of its dispatched orders                     *)
(***************************************************************************)
FlattenNext ==
    \/ Tick
    \/ TradingLoop
    \/ ClientConnect
    \/ FrontendReady
    \/ EdgexMarketData
    \/ BreakerLighterStream
    \/ OnLighterMarketData
    \/ FillDispatched
    \/ HedgeReturn
    \/ Stop
    \/ StopStep
    \/ StopFinally

SpecFlatten == SystemInit /\ [][FlattenNext]_vars


(***************************************************************************)
(* SpecResume: the front-end leaving and coming back under the trading     *)
(* loop.  The event loop runs every task that is ready, hence the weak     *)
(* fairness of the steps.                                                  *)
(***************************************************************************)
ResumeNext ==
    \/ Tick
    \/ TradingLoop
    \/ ClientConnect
    \/ FrontendReady
    \/ FrontendDisconnect
    \/ EdgexMarketData
    \/ BreakerLighterStream
    \/ OnLighterMarketData

SpecResume == SystemInit /\ [][ResumeNext]_vars /\ WF_vars(ResumeNext)


(***************************************************************************)
(* SpecStartup: start() awaiting LighterClient.initialize() and then       *)
(* registering the venue-L callbacks, while the stream task connects and   *)
(* handles the snapshot and the updates of the order book                  *)
(***************************************************************************)
\* tops of venue L's book in the stream messages, both sides present
StartupTops == {<<10, 11>>, <<16, 17>>}

\* LighterClient after __init__: no callback registered, no snapshot seen
StartupClient ==
    [best_bid |-> None, best_ask |-> None, tasks |-> <<>>,
     order_book |-> [bids |-> {}, asks |-> {}],
     ws_stop |-> FALSE, ws_connected |-> FALSE,
     ws |-> [pc |-> "connecting", reconnect_count |-> 0, delay |-> 0,
             failures |-> 0],
     order_book_ready |-> FALSE, on_market_data |-> FALSE]

\* start() at "await self.lighter_client.initialize()", the stream task
\* created and not yet connected
StartupInit ==
    /\ now = StartTime
    /\ risk_manager = RiskInit
    /\ position_manager = [edgex |-> 0, lighter |-> 0]
    /\ order_book_manager = BookInit
    /\ engine = EngineInit
    /\ emitted = <<>>
    /\ ret = [op |-> "init"]
    /\ edgex_ready = FALSE
    /\ sampling_notified = FALSE
    /\ pending_orders = EmptyMap
    /\ latency_monitor = <<>>
    /\ next_cycle = now
    /\ lighter_client = StartupClient
    /\ hedge = NoHedge
    /\ lighter_orders = <<>>
    /\ history = EmptyMap
    /\ msgs = 0
    /\ clients = "none"
    /\ ledger_lock = FALSE
    /\ call_stack = <<>>
    /\ main_loop = [LoopStart EXCEPT !.pc = "initialize"]
    /\ notified = NothingNotified

StartupUnchanged ==
    /\ UNCHANGED <<now, risk_manager, position_manager, engine, emitted,
                   edgex_ready, sampling_notified, pending_orders,
                   latency_monitor, next_cycle, hedge, lighter_orders,
                   history, msgs, clients, ledger_lock, call_stack, notified>>

\* _run_websocket: websockets.connect returns and the book is subscribed to
StartupConnect ==
    /\ lighter_client.ws.pc = "connecting"
    /\ lighter_client' = [lighter_client EXCEPT !.ws_connected = TRUE,
                                                !.ws.pc = "open"]
    /\ ret' = [op |-> "ws_open"]
    /\ UNCHANGED <<order_book_manager, main_loop>>
    /\ StartupUnchanged

\* initialize() returns, its poll having seen _ws_connected or run out, and
\* start() registers the callbacks of the venue-L client
InitializeReturns ==
    /\ main_loop.pc = "initialize"
    /\ main_loop' = [main_loop EXCEPT !.pc = "waiting"]
    /\ lighter_client' = [lighter_client EXCEPT !.on_market_data = TRUE]
    /\ ret' = [op |-> "initialized",
               ws_connected |-> lighter_client.ws_connected]
    /\ UNCHANGED order_book_manager
    /\ StartupUnchanged

\* _handle_ws_message for a snapshot or an update of the order book:
\* _update_order_book sets the top of book and schedules the market-data
\* callback when one is registered; a snapshot sets order_book_ready
HandleWsMessage ==
    \E q \in StartupTops, is_snapshot \in BOOLEAN :
        /\ lighter_client.ws.pc = "open"
        /\ Len(lighter_client.tasks) < MaxPendingTasks
        /\ lighter_client' =
               [lighter_client EXCEPT
                  !.best_bid = q[1], !.best_ask = q[2],
                  !.order_book_ready = @ \/ is_snapshot,
                  !.tasks =
                      IF lighter_client.on_market_data
                      THEN Append(@,
                             [best_bid |-> IF Truthy(q[1]) THEN q[1] ELSE None,
                              best_ask |-> IF Truthy(q[2]) THEN q[2] ELSE None])
                      ELSE @]
        /\ ret' = [op |-> "ws_message", is_snapshot |-> is_snapshot,
                   pushed |-> lighter_client.on_market_data]
        /\ UNCHANGED <<order_book_manager, main_loop>>
        /\ StartupUnchanged

StartupNext ==
    \/ StartupConnect
    \/ InitializeReturns
    \/ HandleWsMessage
    \/ OnLighterMarketData

SpecStartup == StartupInit /\ [][StartupNext]_vars

---------------------------------------------------------------------------
\* The five rules as the claim words them, over the state a call read.
C3_BreakerFails(c) ==
    /\ c.risk.circuit_breaker_triggered
    /\ c.t - c.risk.circuit_breaker_time <= 300

C3_PostTrade(c) ==
    IF c.edgex_side = "buy" THEN c.pm.edgex + c.quantity
    ELSE c.pm.edgex - c.quantity

C3_PositionOutsideRange(c) ==
    C3_PostTrade(c) > max_position \/ C3_PostTrade(c) < 0 - max_position

C3_PositionBeyondOwnSide(c) ==
    \/ c.edgex_side = "buy" /\ C3_PostTrade(c) > max_position
    \/ c.edgex_side = "sell" /\ C3_PostTrade(c) < 0 - max_position

C3_ImbalanceFails(c) == Abs(c.pm.edgex + c.pm.lighter) > max_position_imbalance

C3_DailyLossFails(c) == c.risk.daily_pnl < 0 - max_daily_loss

C3_ErrorRateFails(c) ==
    /\ c.risk.trade_count > 10
    /\ c.risk.error_count * 10 > c.risk.trade_count

C2_SignalsAtLeastIntervalApart ==
    \A i, j \in DOMAIN emitted :
        i < j => emitted[j] - emitted[i] >= min_signal_interval

\* two signals were emitted and a later call, made too soon, returned none
C2_Witness ==
    /\ Len(emitted) >= 2
    /\ ret.op = "check_arbitrage_opportunity"
    /\ ret.signal = NoSignal
    /\ ~ret.is_sampling
    /\ ret.t - emitted[Len(emitted)] < min_signal_interval

\* C6: a call of check_arbitrage_opportunity that finds the engine sampling
\* at its point of decision returns none: a signal is returned only with
\* is_sampling false and at least min_samples samples taken since
\* construction or the last reset_sampling.
C6_NoSignalWhileSampling ==
    (ret.op = "check_arbitrage_opportunity" /\ ret.signal # NoSignal) =>
        (~ret.is_sampling /\ ret.sample_count >= min_samples)

\* after a signal and a reset_sampling, a call that took a sample of the new
\* sampling phase returned none
C6_Witness ==
    /\ Len(emitted) >= 1
    /\ ret.op = "check_arbitrage_opportunity"
    /\ ret.is_sampling
    /\ ret.sample_count >= 1
    /\ ret.signal = NoSignal

\* errors of the ring less than circuit_breaker_window seconds old at time t
ErrorsInWindow(r, t) ==
    Cardinality({i \in DOMAIN r.error_history :
                    t - r.error_history[i] < circuit_breaker_window})

\* C4 as claimed: in every reachable state the breaker flag is true if and
\* only if at least circuit_breaker_threshold errors fell within the last
\* circuit_breaker_window seconds and fewer than 300 s have elapsed since
\* the trigger time.
C4_BreakerIffErrorsInWindow ==
    risk_manager.circuit_breaker_triggered <=>
        (/\ ErrorsInWindow(risk_manager, now) >= circuit_breaker_threshold
         /\ now - risk_manager.circuit_breaker_time < 300)

\* C4 amended: the breaker flag becomes true only when an error is recorded
\* that brings the errors of the last circuit_breaker_window seconds to at
\* least circuit_breaker_threshold; every such error sets the flag and stamps
\* the trigger time; and the flag becomes false only in a check_signal call
\* made more than 300 s after the trigger time.  In between it stays true,
\* also after the errors have left the window.
C4_BreakerSetByErrorClearedByCheck ==
    [][/\ (~risk_manager.circuit_breaker_triggered
             /\ risk_manager'.circuit_breaker_triggered) =>
            (/\ risk_manager'.error_count = risk_manager.error_count + 1
             /\ ErrorsInWindow(risk_manager', now') >= circuit_breaker_threshold
             /\ risk_manager'.circuit_breaker_time = now')
       /\ (/\ risk_manager'.error_count > risk_manager.error_count
           /\ ErrorsInWindow(risk_manager', now') >= circuit_breaker_threshold) =>
            (/\ risk_manager'.circuit_breaker_triggered
             /\ risk_manager'.circuit_breaker_time = now')
       /\ (risk_manager.circuit_breaker_triggered
             /\ ~risk_manager'.circuit_breaker_triggered) =>
            (/\ now - risk_manager.circuit_breaker_time > 300
             /\ ret'.op = "trading_loop"
             /\ ret'.signal # NoSignal)]_vars

\* the breaker is still set a quiet period after it tripped, the errors
\* having left the window
C4_Witness ==
    /\ risk_manager.circuit_breaker_triggered
    /\ ErrorsInWindow(risk_manager, now) = 0
    /\ now - risk_manager.circuit_breaker_time >= QuietSeconds
    /\ now - risk_manager.circuit_breaker_time < 300

C7_NetWithinImbalanceLimit ==
    Abs(position_manager.edgex + position_manager.lighter)
        <= max_position_imbalance

\* C8: once an F fill of quantity q and the venue-L fill of its hedge, q on
\* the opposite side, have both been applied (and no other fill in
\* between), |net position| is no larger than before the F fill.
C8_PairNeutral ==
    (ret.op = "lighter_fill" /\ ret.others = 0) =>
        Abs(ret.net_after) <= Abs(ret.net_before)

\* a hedge fill applied right after its F fill, the net position having
\* been non-zero before the pair
C8_Witness ==
    /\ ret.op = "lighter_fill"
    /\ ret.others = 0
    /\ ret.net_before # 0
    /\ ret.quantity = order_quantity

\* C9: no hedge is placed for a client order id before its execute_order
\* was dispatched and its order_placed handled.
C9_HedgeAfterDispatchAndPlaced ==
    \A cid \in DOMAIN history : ~history[cid].hedged_early

\* C10: every entry of pending_orders was created by a dispatch, has one of
\* the two live statuses, and no terminal event (order_placed with
\* success=false, order_update FILLED, CANCELED or REJECTED) has been
\* handled for its client order id.
C10_TerminalEventFreesEntry ==
    \A cid \in DOMAIN pending_orders :
        /\ HistoryOf(cid).dispatched
        /\ pending_orders[cid].status \in {"pending", "placed"}
        /\ ~HistoryOf(cid).terminal

\* C11: when the FILLED branch of _on_order_update ends, the trade has been
\* recorded with success equal to the hedge outcome: a failed hedge as a
\* failed trade, a successful one as a successful trade.
C11_TradeRecordedWithHedgeOutcome ==
    ret.op = "order_filled" => ret.trade_success = ret.hedge_ok

\* C12: a hedge whose venue-L price is missing fails with 'No bid price' or
\* 'No ask price', places no order and records an error; every failed hedge
\* increments the Risk Gate's error count.
C12_FailedHedgeRecordsError ==
    /\ (ret.op = "order_filled" /\ ~ret.placed) =>
           (/\ ~ret.hedge_ok
            /\ ret.error \in {"No bid price", "No ask price"})
    /\ (ret.op = "order_filled" /\ ~ret.hedge_ok) =>
           ret.errors_after > ret.errors_before

\* some F-leg fill so far had a hedge that failed
HedgeFailedBefore == \E cid \in DOMAIN history : history[cid].failed_hedges >= 1

\* C13 as claimed: after an F-leg fill whose hedge failed the pending order
\* is removed and the net position is non-zero, and the next signal given
\* to check_signal is rejected by the imbalance check.
C13_UnhedgedFillBlocksNextSignal ==
    /\ (ret.op = "order_filled" /\ ~ret.hedge_ok) =>
           (/\ ret.cid \notin DOMAIN pending_orders
            /\ ret.net_after # 0)
    /\ (/\ ret.op = "trading_loop"
        /\ ret.signal # NoSignal
        /\ HedgeFailedBefore
        /\ get_net_position(ret.pm) # 0) =>
           (~ret.ok /\ C3_ImbalanceFails(ret))

\* C13 amended: after an F-leg fill whose hedge failed the pending order is
\* removed and the fill stays in the venue-F position (when no order was
\* placed the net position is its value before the fill plus the fill, so
\* non-zero if the ledger was flat); a later signal is rejected by the
\* imbalance check exactly when |net| exceeds max_position_imbalance, and a
\* net position within the limit does not keep it from being admitted.
C13_UnhedgedFillBlocksBeyondLimit ==
    /\ (ret.op = "order_filled" /\ ~ret.hedge_ok) =>
           (/\ ret.cid \notin DOMAIN pending_orders
            /\ ~ret.placed =>
                 (/\ ret.net_after = ret.net_before + ret.delta
                  /\ ret.net_before = 0 => ret.net_after # 0))
    /\ (/\ ret.op = "trading_loop"
        /\ ret.signal # NoSignal
        /\ HedgeFailedBefore) =>
           (/\ Abs(get_net_position(ret.pm)) > max_position_imbalance => ~ret.ok
            /\ (/\ Abs(get_net_position(ret.pm)) <= max_position_imbalance
                /\ ~C3_BreakerFails(ret)
                /\ ~C3_PositionBeyondOwnSide(ret)
                /\ ~C3_DailyLossFails(ret)
                /\ ~C3_ErrorRateFails(ret)) => ret.ok)

\* a signal admitted with a non-zero net position left by a failed hedge
C13_Witness ==
    /\ ret.op = "trading_loop"
    /\ ret.signal # NoSignal
    /\ HedgeFailedBefore
    /\ get_net_position(ret.pm) # 0
    /\ ret.ok

\* C14: _on_order_placed records the latency under 'edgex_order' in both
\* cases; on success the pending order of that client order id is in status
\* 'placed' with the venue order id and the place latency stored and no
\* error is recorded; on failure one error is recorded and the pending
\* order is gone.
C14_OrderPlacedHandled ==
    ret.op = "order_placed" =>
        /\ latency_monitor # <<>>
        /\ latency_monitor[Len(latency_monitor)] = ret.latency
        /\ ret.success =>
             /\ risk_manager.error_count = ret.errors_before
             /\ ret.was_pending =>
                  /\ ret.cid \in DOMAIN pending_orders
                  /\ pending_orders[ret.cid].status = "placed"
                  /\ pending_orders[ret.cid].edgex_order_id = ret.order_id
                  /\ pending_orders[ret.cid].place_latency = ret.latency
        /\ ~ret.success =>
             /\ risk_manager.error_count = ret.errors_before + 1
             /\ ret.cid \notin DOMAIN pending_orders

\* a failed placement reported for an order that was pending
C14_Witness ==
    /\ ret.op = "order_placed"
    /\ ~ret.success
    /\ ret.was_pending
    /\ ret.cid \notin DOMAIN pending_orders

\* C15: handling order_update CANCELED deletes the pending order, places no
\* hedge on venue L and leaves the positions on both venues and the Risk
\* Gate's trade and error counters unchanged.
C15_CanceledOnlyFreesEntry ==
    [][ret'.op = "order_canceled" =>
          /\ ret'.cid \notin DOMAIN pending_orders'
          /\ position_manager' = position_manager
          /\ risk_manager'.trade_count = risk_manager.trade_count
          /\ risk_manager'.error_count = risk_manager.error_count
          /\ hedge' = hedge
          /\ lighter_orders' = lighter_orders
          /\ history'[ret'.cid].placements = HistoryOf(ret'.cid).placements]_vars

\* a CANCELED handled for an order that was pending
C15_Witness ==
    /\ ret.op = "order_canceled"
    /\ ret.was_pending
    /\ ret.cid \notin DOMAIN pending_orders

\* C16: when the socket of a front-end that had sent frontend_ready closes,
\* its entry is removed, the F side is marked not ready, the engine is
\* paused and one error is recorded; while the engine is paused it returns
\* no signal and collects no sample; and the closing of a client that never
\* became ready changes none of this.
C16_DisconnectPausesEngine ==
    [][/\ (clients = "ready" /\ clients' # "ready") =>
            (/\ clients' = "none"
             /\ ~edgex_ready'
             /\ ~engine'.is_running
             /\ risk_manager'.error_count = risk_manager.error_count + 1)
       /\ (clients = "connected" /\ clients' = "none") =>
            (/\ edgex_ready' = edgex_ready
             /\ engine' = engine
             /\ risk_manager' = risk_manager)
       /\ (~engine.is_running /\ ~engine'.is_running) =>
            (/\ engine'.sample_count = engine.sample_count
             /\ engine'.history_long = engine.history_long
             /\ engine'.history_short = engine.history_short
             /\ emitted' = emitted)
       /\ (~engine.is_running /\ next_cycle' # next_cycle) =>
            (ret'.op = "trading_loop" /\ ret'.signal = NoSignal)]_vars

\* the front-end is back and both books are ready, the trading loop has
\* called the engine, and the engine, paused by the disconnect after it had
\* taken a sample, gave no signal
C16_Witness ==
    /\ ret.op = "trading_loop"
    /\ ~engine.is_running
    /\ engine.sample_count >= 1
    /\ edgex_ready
    /\ clients = "ready"
    /\ is_ready(order_book_manager)
    /\ ret.signal = NoSignal
    /\ risk_manager.error_count >= 1

\* C20: once the errors in the trailing window reach
\* circuit_breaker_threshold the breaker flag is set and the emergency
\* handler has been called, and for every call of the handler the
\* coordinator's callback has logged one circuit_breaker event and sent one
\* operator alert.
C20_BreakerTripRunsEmergencyHandler ==
    /\ ErrorsInWindow(risk_manager, now) >= circuit_breaker_threshold =>
           (/\ risk_manager.circuit_breaker_triggered
            /\ risk_manager.emergency_coroutines >= 1)
    /\ notified.circuit_breaker_events = risk_manager.emergency_coroutines
    /\ notified.circuit_breaker_alerts = risk_manager.emergency_coroutines

\* C17: when the REST request of the venue-L sync fails, the ledger's cached
\* venue-L position after the sync is the one it had before
C17_FailedSyncKeepsCachedPosition ==
    (ret.op = "sync_lighter_position" /\ ~ret.transport_ok) =>
        ret.cached_after = ret.cached_before

\* a ledger method waits at "with self._lock" while the lock is held: on the
\* one thread nobody can release it
LedgerBlocked ==
    /\ call_stack # <<>>
    /\ TopFrame.pc = "enter"
    /\ ledger_lock

\* C18: a ledger method called with the lock free returns: no call waits
\* for a lock that is held, and the lock is free whenever no call is in
\* progress
C18_LedgerCallsReturn ==
    /\ ~LedgerBlocked
    /\ call_stack = <<>> => ~ledger_lock

\* C19: an iteration of the main loop that has begun reaches the loop's
\* sleep, from where the next one begins, or the loop has ended
C19_LoopKeepsIterating ==
    (main_loop.pc = "top") ~> (main_loop.pc \in {"asleep", "done"})

\* what is left of a sequence when only the members of a set are kept
RECURSIVE Restrict(_, _)
Restrict(q, keep) ==
    IF q = <<>> THEN <<>>
    ELSE IF Head(q) \in keep THEN <<Head(q)>> \o Restrict(Tail(q), keep)
    ELSE Restrict(Tail(q), keep)

IsPrefix(p, q) == Len(p) <= Len(q) /\ SubSeq(q, 1, Len(p)) = p

\* the order of shutdown the claim gives
C21_Order ==
    <<"stop_flag", "engine_stop", "flatten", "close_lighter", "stop_server">>

C21_InOrder ==
    \A i \in DOMAIN main_loop.stop_calls :
        IsPrefix(Restrict(main_loop.stop_calls[i].log,
                          {C21_Order[k] : k \in DOMAIN C21_Order}),
                 C21_Order)

C21_EngineStopped ==
    \E i \in DOMAIN main_loop.stop_calls :
        \E k \in DOMAIN main_loop.stop_calls[i].log :
            main_loop.stop_calls[i].log[k] = "engine_stop"

BothSides(bbo) == bbo.bid # None /\ bbo.ask # None

\* C22: a stored quote with both sides has bid < ask, and an update whose
\* quote would have ask <= bid leaves the stored quote as it was
C22_QuoteNeverCrossed ==
    /\ \A venue \in Venues :
           LET bbo == BboOf(order_book_manager, venue)
           IN  BothSides(bbo) => bbo.bid < bbo.ask
    /\ (/\ ret.op = "update_bbo"
        /\ ret.bid # None /\ ret.ask # None /\ ret.ask <= ret.bid) =>
           BboOf(order_book_manager, ret.venue) = ret.before

\* (max(bids), min(asks)), a side absent when its map is empty
BestOfBook(book) ==
    [bid |-> IF book.bids # {} THEN SetMax(book.bids) ELSE None,
     ask |-> IF book.asks # {} THEN SetMin(book.asks) ELSE None]

\* C23: after an order book update the quote's bid is the highest price of
\* the bids map and its ask the lowest of the asks map, and a side whose
\* map is empty is absent
C23_TopIsBestOfBook ==
    ret.op = "update_order_book" =>
        BboOf(order_book_manager, ret.venue) =
            BestOfBook(BookOf(order_book_manager, ret.venue))

C25_Recomputed(e) ==
    /\ e.history_long # <<>>
    /\ e.long_threshold =
           Rat(SeqSum(e.history_long) + threshold_offset * Len(e.history_long),
               Len(e.history_long))
    /\ e.short_threshold =
           Rat(SeqSum(e.history_short) + threshold_offset * Len(e.history_short),
               Len(e.history_short))

C25_Step ==
    LET appended == engine'.sample_count = engine.sample_count + 1
        due == \/ engine.is_sampling
               \/ engine'.sample_count % 10 = 0
    IN  ~engine'.is_sampling =>
            IF appended /\ due THEN C25_Recomputed(engine')
            ELSE /\ engine'.long_threshold = engine.long_threshold
                 /\ engine'.short_threshold = engine.short_threshold

\* C25: once sampling is over, a step that appends the sample completing the
\* sampling, or the sample that brings sample_count to a multiple of 10,
\* leaves the thresholds at mean(history) + threshold_offset of the histories
\* as they are then, and every other step leaves the thresholds as they were:
\* the thresholds are those of the last recomputation and fewer than 10
\* samples have been appended since
C25_ThresholdsFollowHistory == [][C25_Step]_vars

\* the tenth sample has been appended after sampling was over, to a history
\* whose mean differs from the mean at the end of sampling
C25_Witness ==
    /\ ret.op = "check_arbitrage_opportunity"
    /\ ~engine.is_sampling
    /\ engine.sample_count = 10
    /\ C25_Recomputed(engine)
    /\ engine.long_threshold # Rat(base_threshold, 1)
    /\ \E i \in DOMAIN engine.history_long :
           engine.history_long[i] # engine.history_long[1]

\* C26: an engine with min_samples = 0 is never sampling, from construction
\* on, and no call of check_arbitrage_opportunity raises
C26_ZeroSamplesNeverSampling ==
    engine.min_samples = 0 =>
        /\ ~engine.is_sampling
        /\ ret.op = "check_arbitrage_opportunity" => ~ret.raised

\* the first call with both spreads present has raised
C26_FirstCallRaises ==
    /\ engine.min_samples = 0
    /\ ret.op = "check_arbitrage_opportunity"
    /\ ret.raised
    /\ ret.sample_count = 1

\* the call of this step went past the sampling and the interval tests
C27_Decided ==
    /\ engine.is_running
    /\ get_spread(order_book_manager).present
    /\ ~ret'.raised
    /\ ~engine'.is_sampling
    /\ now - engine.last_signal_time >= min_signal_interval

C27_LongHolds ==
    /\ Exceeds(get_spread(order_book_manager).long,
               calculate_adaptive_threshold(engine'.long_threshold,
                                            ret'.latency_ms))
    /\ position_manager.edgex < max_position

C27_ShortHolds ==
    /\ Exceeds(get_spread(order_book_manager).short,
               calculate_adaptive_threshold(engine'.short_threshold,
                                            ret'.latency_ms))
    /\ position_manager.edgex > -max_position

C27_Step ==
    ret'.op = "check_arbitrage_opportunity" =>
        LET sig == ret'.signal
        IN  /\ IF C27_Decided /\ C27_LongHolds
               THEN /\ sig.direction = "long"
                    /\ sig.edgex_side = "buy" /\ sig.lighter_side = "sell"
                    /\ sig.edgex_price = order_book_manager.edgex_bbo.ask - tick_size
                    /\ sig.lighter_price = order_book_manager.lighter_bbo.bid
               ELSE IF C27_Decided /\ C27_ShortHolds
               THEN /\ sig.direction = "short"
                    /\ sig.edgex_side = "sell" /\ sig.lighter_side = "buy"
                    /\ sig.edgex_price = order_book_manager.edgex_bbo.bid + tick_size
                    /\ sig.lighter_price = order_book_manager.lighter_bbo.ask
               ELSE sig = NoSignal
            /\ position_manager.edgex >= max_position => sig.direction # "long"
            /\ position_manager.edgex <= -max_position => sig.direction # "short"

\* C27: a call of check_arbitrage_opportunity that gets to its decision emits
\* LONG (buy on F one tick below F's ask, sell on L at L's bid) when the long
\* spread exceeds the adaptive long threshold and the F position is below
\* max_position, even if the SHORT condition holds too; otherwise SHORT (sell
\* on F one tick above F's bid, buy on L at L's ask) when the short spread
\* exceeds the adaptive short threshold and the F position is above
\* -max_position; otherwise nothing. No LONG at a position of max_position
\* or more, no SHORT at -max_position or less
C27_LongBeforeShort == [][C27_Step]_vars

\* LONG was emitted by a call for which the SHORT condition holds as well
C27_Witness ==
    /\ ret.op = "check_arbitrage_opportunity"
    /\ ret.signal.direction = "long"
    /\ Exceeds(get_spread(order_book_manager).short,
               calculate_adaptive_threshold(engine.short_threshold,
                                            ret.latency_ms))
    /\ position_manager.edgex > -max_position

\* C28: of the ids generate_client_order_id has returned for one prefix no
\* two are equal, and their epoch_ms suffixes never decrease
C28_IdsUnique ==
    ret.op = "generate_client_order_id" =>
        \A i, j \in DOMAIN ret.ids :
            (i < j /\ ret.ids[i][1] = ret.ids[j][1]) =>
                /\ ret.ids[i] # ret.ids[j]
                /\ ret.ids[i][2] <= ret.ids[j][2]

C29_Step ==
    LET ws == lighter_client.ws
        ws1 == lighter_client'.ws
    IN  /\ ws1.pc = "sleeping" /\ ws.pc # "sleeping" =>
               /\ ws1.failures = ws.failures + 1
               /\ ws1.delay = IF 2 ^ ws1.failures < 30
                              THEN 2 ^ ws1.failures ELSE 30
        /\ ws.pc = "sleeping" /\ ws1.pc # "done" =>
               now' = now + ws.delay
        /\ ws1.pc = "open" /\ ws.pc # "open" => ws1.reconnect_count = 0
        /\ ws1.pc = "connecting" /\ ws.pc # "connecting" =>
               ~lighter_client.ws_stop
        /\ lighter_client.ws_stop /\ ws1.pc # ws.pc =>
               ws1.pc \in {"loop", "done"}

\* C29: when the n-th connection in a row since the last successful connect
\* has failed or has closed, the client sleeps min(2^n, 30) seconds before it
\* goes on; a successful connect sets the count back to zero; and once
\* _ws_stop is set the task neither connects nor sleeps again
C29_ReconnectBackoff == [][C29_Step]_vars

\* the fifth failure in a row has been met with the capped delay
C29_Witness ==
    /\ lighter_client.ws.pc = "sleeping"
    /\ lighter_client.ws.failures = 5
    /\ lighter_client.ws.delay = 30

\* C30: after the same sequence of order book updates the venue-L client's
\* best bid and best ask are those of the Book Store's venue-L quote, a side
\* being absent in the one exactly when it is absent in the other
C30_SameTopOfBook ==
    ret.op = "update_order_book" =>
        /\ order_book_manager.lighter_bbo.bid = lighter_client.best_bid
        /\ order_book_manager.lighter_bbo.ask = lighter_client.best_ask

\* C31: the callbacks run in the order the client handled the updates, so
\* once every callback has run the Book Store's venue-L quote is the top of
\* book of the update the client handled last
C31_StoreReflectsLastUpdate ==
    (lighter_client.tasks = <<>> /\ order_book_manager.lighter_ready) =>
        /\ order_book_manager.lighter_bbo.bid = lighter_client.best_bid
        /\ order_book_manager.lighter_bbo.ask = lighter_client.best_ask

\* the same, for a last update that left both sides in the book
C31_StoreReflectsLastTwoSided ==
    (/\ lighter_client.tasks = <<>>
     /\ order_book_manager.lighter_ready
     /\ lighter_client.best_bid # None /\ lighter_client.best_ask # None) =>
        /\ order_book_manager.lighter_bbo.bid = lighter_client.best_bid
        /\ order_book_manager.lighter_bbo.ask = lighter_client.best_ask

\* C32: the bridge never holds two ready clients of one exchange role, and
\* a command is delivered to at most one client
C32_OneReadyClientPerRole ==
    /\ \A role \in Roles : Cardinality(broadcast(clients, role)) <= 1
    /\ ret.op \in Commands => Cardinality(ret.delivered) <= 1

\* the last call was check_signal and rejected for the position limit, the
\* imbalance limit or the daily-loss limit
C33_RejectedByLimit ==
    /\ ret.op = "check_signal"
    /\ ~ret.ok
    /\ ~C3_BreakerFails(ret)
    /\ \/ C3_PositionBeyondOwnSide(ret)
       \/ C3_ImbalanceFails(ret)
       \/ C3_DailyLossFails(ret)

C33_CountersUnchanged ==
    /\ risk_manager.error_count = ret.risk.error_count
    /\ risk_manager.error_history = ret.risk.error_history
    /\ risk_manager.trade_count = ret.risk.trade_count
    /\ risk_manager.circuit_breaker_time = ret.risk.circuit_breaker_time

\* C33 as claimed: a check_signal that rejects for the position limit, the
\* imbalance limit or the daily-loss limit leaves error_count, error_history,
\* trade_count, the breaker flag and the trigger time as they were
C33_RejectionChangesNothing ==
    C33_RejectedByLimit =>
        /\ C33_CountersUnchanged
        /\ risk_manager.circuit_breaker_triggered =
               ret.risk.circuit_breaker_triggered

\* C33 amended: a check_signal that rejects for the position limit, the
\* imbalance limit or the daily-loss limit leaves error_count, error_history,
\* trade_count and the trigger time as they were and never sets the breaker
\* flag; the flag changes only when the call finds the breaker set for more
\* than 300 s and clears it before it goes on to the limits
C33_RejectionIsNoError ==
    C33_RejectedByLimit =>
        /\ C33_CountersUnchanged
        /\ risk_manager.circuit_breaker_triggered =
               (/\ ret.risk.circuit_breaker_triggered
                /\ ret.t - ret.risk.circuit_breaker_time <= 300)

\* a signal rejected for the position limit by a manager holding errors
C33_Witness ==
    /\ C33_RejectedByLimit
    /\ C3_PositionBeyondOwnSide(ret)
    /\ ret.risk.error_count > 0
    /\ ~ret.risk.circuit_breaker_triggered
    /\ risk_manager = ret.risk


C35_UnknownFill(cid) ==
    /\ cid \notin DOMAIN pending_orders
    /\ cid \in DOMAIN history'
    /\ history'[cid].fills = HistoryOf(cid).fills + 1

C35_Step ==
    (\E cid \in MessageIds : C35_UnknownFill(cid)) =>
        /\ position_manager' = position_manager
        /\ ~hedge'.active
        /\ risk_manager'.trade_count = risk_manager.trade_count

C35_UnknownFillIgnored == [][C35_Step]_vars


\* the emergency_close commands a call of stop() has sent
RECURSIVE CountOf(_, _)
CountOf(q, x) ==
    IF q = <<>> THEN 0
    ELSE (IF Head(q) = x THEN 1 ELSE 0) + CountOf(Tail(q), x)

RECURSIVE EmergencyClosesSent(_)
EmergencyClosesSent(calls) ==
    IF calls = <<>> THEN 0
    ELSE CountOf(Head(calls).log, "emergency_close")
         + EmergencyClosesSent(Tail(calls))

\* C37: over a shutdown, stop() invoked from the signal handler's task and
\* from main's finally, the emergency_close command for the position held
\* on venue F is sent at most once
C37_FlattenAtMostOnce == EmergencyClosesSent(main_loop.stop_calls) <= 1


\* C36: once the edgex front-end is back after a disconnect that paused
\* the Signal Engine, the engine is eventually running again: it does not
\* stay paused forever
C36_EngineResumes == (edgex_ready /\ ~engine.is_running) ~> engine.is_running


\* C38: the breaker's trigger time is stamped when the breaker trips and
\* is not moved by an error recorded while the breaker is already set
C38_Step ==
    (risk_manager.circuit_breaker_triggered
        /\ risk_manager'.circuit_breaker_triggered) =>
        risk_manager'.circuit_breaker_time = risk_manager.circuit_breaker_time

C38_TriggerTimeKept == [][C38_Step]_vars


\* C39: _ws_connected, which is_connected() returns, is true only while a
\* stream connection is open: between connections it is false
C39_ConnectedOnlyWhileOpen ==
    lighter_client.ws.pc \in {"sleeping", "loop", "connecting"} =>
        ~lighter_client.ws_connected


\* C40: once the client's order_book_ready is true and no market-data
\* callback is waiting to run, the Book Store's venue L is ready and holds
\* the client's top of book, whatever the interleaving of the stream task
\* with the coordinator's startup
C40_SnapshotInBookStore ==
    (lighter_client.order_book_ready /\ lighter_client.tasks = <<>>) =>
        /\ order_book_manager.lighter_ready
        /\ order_book_manager.lighter_bbo =
               [bid |-> lighter_client.best_bid, ask |-> lighter_client.best_ask]

====
